---- MODULE Spec2Model ----
(***************************************************************************)
(* ExtensionLens diagnostics engine: the conflict analyzer                 *)
(* (ConflictDetector.ts), its remediation and keybinding-suggestion        *)
(* helpers, and the log monitor (LogMonitor.ts).                           *)
(*                                                                         *)
(* Strings that the code only compares for equality are TLA+ strings.      *)
(* Strings that the code takes apart (key strings, log text) are sequences *)
(* of one-character strings.                                               *)
(***************************************************************************)
EXTENDS Integers, Sequences, FiniteSets, TLC

VARIABLES
    extensions,       \* vscode.extensions.all: the live registry, in registry order
    runtimeCommands,  \* the host's Runtime Command Table (a set of command ids)
    pc,               \* per analysis run: where detectConflicts is suspended
    conflicts,        \* per analysis run: its local `conflicts` array
    fetched,          \* per analysis run: the command list its getCommands call returned
    seen,             \* per analysis run: the registry each detector iterated (history)
    overlapped,       \* per analysis run: another run was in progress during it (history)
    moments,          \* per analysis run: the commands that at some moment of it were
                      \* declared by an active extension and not in the table (history)
    documents,        \* the package.json text documents, by extension id
    clipboard,        \* the text on the clipboard
    messages,         \* the notifications the current remediation has shown, in order
    fix,              \* the locals of fixAllMissingActivationEvents, and its history
    single,           \* the locals of fixMissingActivationEvents
    file,             \* the log file on disk
    reader,           \* the locals of LogMonitor.readFile
    parse,            \* the arguments of parseLogContent and what it returned
    logDir,           \* the session's log directory as the file system shows it
    query,            \* the locals of getLogs or getRecentErrors, and what it returned
    memo,             \* CommandRegistry: commandCache and lastUpdate, and their history
    calls,            \* the locals of each getAllCommands call
    clock,            \* Date.now()
    suggestions,      \* what suggestAlternativeKeybindings returned
    normalized        \* the argument of normalizeKeybinding and what it returned

hostVars == <<extensions, runtimeCommands>>
runVars  == <<pc, conflicts, fetched, seen, overlapped, moments>>
fixVars  == <<documents, clipboard, messages, fix, single>>
logVars  == <<file, reader, parse>>
queryVars == <<logDir, query>>
cacheVars == <<memo, calls, clock>>
sugVars  == <<suggestions, normalized>>

vars == <<extensions, runtimeCommands, pc, conflicts, fetched, seen, overlapped, moments,
          documents, clipboard, messages, fix, single, file, reader, parse, logDir,
          query, memo, calls, clock, suggestions, normalized>>

(***************************************************************************)
(* Bounds of the model.                                                    *)
(***************************************************************************)
MaxExts == 3
MaxFixExts == 2
MaxAppends == 2
MaxLines == 4
MaxKeyParts == 4
MaxSources == 2
MaxLimit == 2
MaxLevelParts == 3
MaxCalls == 3
MaxTicks == 1

(***************************************************************************)
(* Sequence helpers.                                                       *)
(***************************************************************************)
Range(s) == {s[i] : i \in 1..Len(s)}

SeqsUpTo(S, n) == UNION {[1..k -> S] : k \in 0..n}

\* Array.prototype.includes
Includes(s, x) == \E i \in 1..Len(s) : s[i] = x

\* the keys of a JS Map filled in the order of s: first occurrences, in order
RECURSIVE FirstOccurrences(_)
FirstOccurrences(s) ==
    IF s = <<>> THEN <<>>
    ELSE LET front == FirstOccurrences(SubSeq(s, 1, Len(s) - 1))
             last  == s[Len(s)]
         IN  IF Includes(front, last) THEN front ELSE Append(front, last)

\* concatenation of f(s[1]), f(s[2]), ...
RECURSIVE FlatMap(_, _)
FlatMap(f(_), s) ==
    IF s = <<>> THEN <<>> ELSE f(Head(s)) \o FlatMap(f, Tail(s))

MapSeq(f(_), s) == [i \in 1..Len(s) |-> f(s[i])]

(***************************************************************************)
(* Extension descriptors.  An extension id is publisher.name; the code     *)
(* only tests an id for the prefixes "vscode." and "microsoft.", so an id  *)
(* is kept as the pair of its two parts.                                   *)
(***************************************************************************)
NoExt == [publisher |-> "", name |-> ""]

\* ext.id.startsWith('vscode.') || ext.id.startsWith('microsoft.')
IsBuiltIn(id) == id.publisher = "vscode" \/ id.publisher = "microsoft"

\* ext.packageJSON.displayName || ext.packageJSON.name
SourceName(ext) == IF ext.displayName # "" THEN ext.displayName ELSE ext.name

\* `onCommand:${cmdId}`
OnCommand(cmdId) == "onCommand:" \o cmdId

(***************************************************************************)
(* Conflict: a description is kept as the name of its message template     *)
(* (its arguments are the conflict's id and sources).                      *)
(***************************************************************************)
Conflict(desc, type, id, sources, severity, extId) ==
    [description |-> desc, type |-> type, id |-> id, sources |-> sources,
     severity |-> severity, extensionId |-> extId]

(***************************************************************************)
(* detectCommandConflicts                                                  *)
(***************************************************************************)
\* the pushes into commandMap, in order: one <<cmdId, owner>> per contribution
CommandContributions(exts) ==
    LET OfExt(ext) == MapSeq(LAMBDA cmdId : <<cmdId, SourceName(ext)>>, ext.commands)
    IN  FlatMap(OfExt, exts)

\* commandMap.get(key): the owners pushed under key, in push order
Pushed(pushes, key) ==
    MapSeq(LAMBDA p : p[2], SelectSeq(pushes, LAMBDA p : p[1] = key))

\* commandMap.keys(), in insertion order
PushedKeys(pushes) == FirstOccurrences(MapSeq(LAMBDA p : p[1], pushes))

detectCommandConflicts(exts) ==
    LET commandMap == CommandContributions(exts)
        Entry(cmdId) ==
            LET sources == Pushed(commandMap, cmdId)
            IN  IF Len(sources) > 1
                THEN <<Conflict("command-multiple", "command", cmdId, sources,
                                "error", NoExt)>>
                ELSE <<>>
    IN  FlatMap(Entry, PushedKeys(commandMap))

(***************************************************************************)
(* detectActivationConflicts                                               *)
(***************************************************************************)
ActivationContributions(exts) ==
    LET Counted(event) == event # "*" /\ event # "onStartupFinished"
        OfExt(ext) == MapSeq(LAMBDA event : <<event, SourceName(ext)>>,
                             SelectSeq(ext.activationEvents, Counted))
    IN  FlatMap(OfExt, exts)

detectActivationConflicts(exts) ==
    LET activationMap == ActivationContributions(exts)
        Entry(event) ==
            LET sources == Pushed(activationMap, event)
            IN  IF Len(sources) > 2
                THEN <<Conflict("activation-multiple", "activation", event, sources,
                                "warning", NoExt)>>
                ELSE <<>>
    IN  FlatMap(Entry, PushedKeys(activationMap))

(***************************************************************************)
(* detectRegistrationMismatches, after its await: runtime is the set built *)
(* from the command list that getCommands returned.                        *)
(***************************************************************************)
GhostConflict(ext, cmdId) ==
    Conflict("ghost-command", "registration", cmdId, <<SourceName(ext)>>, "error", ext.id)

MissingActivationConflict(ext, cmdId) ==
    Conflict("missing-onCommand", "registration", cmdId, <<SourceName(ext)>>,
             "warning", ext.id)

EagerConflict(ext) ==
    Conflict("wildcard-activation", "activation", "*", <<SourceName(ext)>>,
             "warning", NoExt)

\* CommandChecks with the isActive test of the ghost-command check left out
CommandChecks_IgnoresActive(runtime, ext, cmdId) ==
    LET hasOnCommand == Includes(ext.activationEvents, OnCommand(cmdId))
        hasWildcard  == \/ Includes(ext.activationEvents, "*")
                        \/ Includes(ext.activationEvents, "onStartupFinished")
    IN  (IF cmdId \notin runtime
         THEN <<GhostConflict(ext, cmdId)>> ELSE <<>>)
        \o
        (IF ~hasOnCommand /\ ~hasWildcard
         THEN <<MissingActivationConflict(ext, cmdId)>> ELSE <<>>)

\* CommandChecks that takes only "*" for a wildcard
CommandChecks_StarOnly(runtime, ext, cmdId) ==
    LET hasOnCommand == Includes(ext.activationEvents, OnCommand(cmdId))
        hasWildcard  == Includes(ext.activationEvents, "*")
    IN  (IF cmdId \notin runtime /\ ext.isActive
         THEN <<GhostConflict(ext, cmdId)>> ELSE <<>>)
        \o
        (IF ~hasOnCommand /\ ~hasWildcard
         THEN <<MissingActivationConflict(ext, cmdId)>> ELSE <<>>)

\* the body of `for (const cmd of manifestCommands)`
CommandChecks(runtime, ext, cmdId) ==
    LET hasOnCommand == Includes(ext.activationEvents, OnCommand(cmdId))
        hasWildcard  == \/ Includes(ext.activationEvents, "*")
                        \/ Includes(ext.activationEvents, "onStartupFinished")
    IN  (IF cmdId \notin runtime /\ ext.isActive
         THEN <<GhostConflict(ext, cmdId)>> ELSE <<>>)
        \o
        (IF ~hasOnCommand /\ ~hasWildcard
         THEN <<MissingActivationConflict(ext, cmdId)>> ELSE <<>>)

\* ExtensionChecks without the skip of built-in extensions
ExtensionChecks_ChecksBuiltIn(runtime, ext) ==
    FlatMap(LAMBDA cmdId : CommandChecks(runtime, ext, cmdId), ext.commands)
    \o
    (IF Includes(ext.activationEvents, "*") THEN <<EagerConflict(ext)>> ELSE <<>>)

\* the body of `for (const ext of vscode.extensions.all)`
ExtensionChecks(runtime, ext) ==
    IF IsBuiltIn(ext.id) THEN <<>>
    ELSE FlatMap(LAMBDA cmdId : CommandChecks(runtime, ext, cmdId), ext.commands)
         \o
         (IF Includes(ext.activationEvents, "*") THEN <<EagerConflict(ext)>> ELSE <<>>)

detectRegistrationMismatches(runtime, exts) ==
    FlatMap(LAMBDA ext : ExtensionChecks(runtime, ext), exts)

(***************************************************************************)
(* Key strings: sequences of one-character strings.                        *)
(***************************************************************************)
LowerLetters ==
    <<"a", "b", "c", "d", "e", "f", "g", "h", "i", "j", "k", "l", "m",
      "n", "o", "p", "q", "r", "s", "t", "u", "v", "w", "x", "y", "z">>

UpperLetters ==
    <<"A", "B", "C", "D", "E", "F", "G", "H", "I", "J", "K", "L", "M",
      "N", "O", "P", "Q", "R", "S", "T", "U", "V", "W", "X", "Y", "Z">>

Digits == <<"1", "2", "3", "4", "5", "6", "7", "8", "9", "0">>

\* the characters the regular expression class \s matches
Whitespace == {" ", "\t", "\n", "\r"}

\* String.prototype.toLowerCase, one character
LowerChar(ch) ==
    IF \E i \in 1..Len(UpperLetters) : UpperLetters[i] = ch
    THEN LowerLetters[CHOOSE i \in 1..Len(UpperLetters) : UpperLetters[i] = ch]
    ELSE ch

toLowerCase(str) == [i \in 1..Len(str) |-> LowerChar(str[i])]

MatchesAt(str, pat, i) ==
    /\ i + Len(pat) - 1 <= Len(str)
    /\ SubSeq(str, i, i + Len(pat) - 1) = pat

\* str.replace(/pat/g, rep) for a literal pat: left to right, matches do not overlap
RECURSIVE ReplaceFrom(_, _, _, _)
ReplaceFrom(str, pat, rep, i) ==
    IF i > Len(str) THEN <<>>
    ELSE IF MatchesAt(str, pat, i)
         THEN rep \o ReplaceFrom(str, pat, rep, i + Len(pat))
         ELSE <<str[i]>> \o ReplaceFrom(str, pat, rep, i + 1)

ReplaceAll(str, pat, rep) == ReplaceFrom(str, pat, rep, 1)

\* str.replace(/\s+/g, '')
StripWhitespace(str) == SelectSeq(str, LAMBDA ch : ch \notin Whitespace)

CtrlPlus    == <<"c", "t", "r", "l", "+">>
AltPlus     == <<"a", "l", "t", "+">>
CmdPlus     == <<"c", "m", "d", "+">>
ControlPlus == <<"c", "o", "n", "t", "r", "o", "l", "+">>
OptionPlus  == <<"o", "p", "t", "i", "o", "n", "+">>
CommandPlus == <<"c", "o", "m", "m", "a", "n", "d", "+">>
MetaPlus    == <<"m", "e", "t", "a", "+">>

\* normalizeKeybinding without the last replacement: meta+ is kept
normalizeKeybinding_KeepsMeta(key) ==
    ReplaceAll(
        ReplaceAll(
            ReplaceAll(StripWhitespace(toLowerCase(key)), ControlPlus, CtrlPlus),
            OptionPlus, AltPlus),
        CommandPlus, CmdPlus)

\* normalizeKeybinding with the white space stripped last
normalizeKeybinding_StripsLast(key) ==
    StripWhitespace(
        ReplaceAll(
            ReplaceAll(
                ReplaceAll(
                    ReplaceAll(toLowerCase(key), ControlPlus, CtrlPlus),
                    OptionPlus, AltPlus),
                CommandPlus, CmdPlus),
            MetaPlus, CmdPlus))

normalizeKeybinding(key) ==
    ReplaceAll(
        ReplaceAll(
            ReplaceAll(
                ReplaceAll(StripWhitespace(toLowerCase(key)), ControlPlus, CtrlPlus),
                OptionPlus, AltPlus),
            CommandPlus, CmdPlus),
        MetaPlus, CmdPlus)

(***************************************************************************)
(* Keybinding contributions.  A variant that is undefined or the empty     *)
(* string (both falsy) is the empty sequence.                              *)
(***************************************************************************)
\* RepresentativeKey that reads kb.key only
RepresentativeKey_KeyOnly(kb) == kb.key

\* kb.key || kb.mac || kb.linux || kb.win
RepresentativeKey(kb) ==
    IF kb.key # <<>> THEN kb.key
    ELSE IF kb.mac # <<>> THEN kb.mac
    ELSE IF kb.linux # <<>> THEN kb.linux
    ELSE kb.win

(***************************************************************************)
(* detectKeybindingConflicts                                               *)
(***************************************************************************)
KeybindingContributions(exts) ==
    LET HasKey(kb) == RepresentativeKey(kb) # <<>>
        OfExt(ext) ==
            MapSeq(LAMBDA kb : <<normalizeKeybinding(RepresentativeKey(kb)),
                                 [source |-> SourceName(ext), command |-> kb.command]>>,
                   SelectSeq(ext.keybindings, HasKey))
    IN  FlatMap(OfExt, exts)

detectKeybindingConflicts(exts) ==
    LET keybindingMap == KeybindingContributions(exts)
        Entry(key) ==
            LET bindings == Pushed(keybindingMap, key)
            IN  IF Len(bindings) > 1
                THEN <<Conflict("keybinding-multiple", "keybinding", key,
                                MapSeq(LAMBDA b : b.source \o " (" \o b.command \o ")",
                                       bindings),
                                "warning", NoExt)>>
                ELSE <<>>
    IN  FlatMap(Entry, PushedKeys(keybindingMap))

(***************************************************************************)
(* suggestAlternativeKeybindings                                           *)
(***************************************************************************)
SuggestionLimit == 10

Plus == <<"+">>

modifiers ==
    << <<"c", "t", "r", "l", "+", "s", "h", "i", "f", "t">>,
       <<"c", "t", "r", "l", "+", "a", "l", "t">>,
       <<"a", "l", "t", "+", "s", "h", "i", "f", "t">>,
       <<"c", "t", "r", "l", "+", "s", "h", "i", "f", "t", "+", "a", "l", "t">> >>

FunctionKeys ==
    << <<"f", "1">>, <<"f", "2">>, <<"f", "3">>, <<"f", "4">>, <<"f", "5">>, <<"f", "6">>,
       <<"f", "7">>, <<"f", "8">>, <<"f", "9">>, <<"f", "1", "0">>, <<"f", "1", "1">>,
       <<"f", "1", "2">> >>

keys ==
    FunctionKeys
    \o [i \in 1..Len(LowerLetters) |-> <<LowerLetters[i]>>]
    \o [i \in 1..Len(Digits) |-> <<Digits[i]>>]

\* the bindings `${modifier}+${key}` in the order the nested loops make them
Candidates ==
    [n \in 1..(Len(modifiers) * Len(keys)) |->
        modifiers[((n - 1) \div Len(keys)) + 1] \o Plus \o keys[((n - 1) % Len(keys)) + 1]]

\* the set usedBindings
UsedBindings(exts) ==
    UNION {{normalizeKeybinding(RepresentativeKey(exts[e].keybindings[k])) :
               k \in {j \in 1..Len(exts[e].keybindings) :
                        RepresentativeKey(exts[e].keybindings[j]) # <<>>}} :
           e \in 1..Len(exts)}

\* SuggestKeys without the limit of 10: every unused binding is pushed
RECURSIVE SuggestKeys_NoLimit(_, _, _, _)
SuggestKeys_NoLimit(usedBindings, modifier, k, sofar) ==
    IF k > Len(keys) THEN sofar
    ELSE LET binding == modifier \o Plus \o keys[k]
         IN  SuggestKeys_NoLimit(usedBindings, modifier, k + 1,
                                 IF normalizeKeybinding(binding) \notin usedBindings
                                 THEN Append(sofar, binding) ELSE sofar)

\* the loop `for (const key of keys)` from key k on; sofar is the `suggestions`
\* array; the function returns once it holds 10
RECURSIVE SuggestKeys(_, _, _, _)
SuggestKeys(usedBindings, modifier, k, sofar) ==
    IF k > Len(keys) \/ Len(sofar) >= SuggestionLimit THEN sofar
    ELSE LET binding == modifier \o Plus \o keys[k]
         IN  SuggestKeys(usedBindings, modifier, k + 1,
                         IF normalizeKeybinding(binding) \notin usedBindings
                         THEN Append(sofar, binding) ELSE sofar)

\* the loop `for (const modifier of modifiers)` from modifier m on
RECURSIVE SuggestModifiers(_, _, _)
SuggestModifiers(usedBindings, m, sofar) ==
    IF m > Len(modifiers) \/ Len(sofar) >= SuggestionLimit THEN sofar
    ELSE SuggestModifiers(usedBindings, m + 1,
                          SuggestKeys(usedBindings, modifiers[m], 1, sofar))

suggestAlternativeKeybindings(exts, currentBinding) ==
    SuggestModifiers(UsedBindings(exts), 1, <<>>)

(***************************************************************************)
(* detectConflicts.  Each call is a run; two callers exist (the            *)
(* extensionlens.detectConflicts command and the startup auto-check), so   *)
(* two runs may overlap.  A run is suspended at each await:                *)
(*   afterCommand, afterKeybinding, afterActivation: the awaited detector  *)
(*     has returned and the continuation is queued as a microtask;         *)
(*   awaitCommands: detectRegistrationMismatches has called getCommands;   *)
(*   replied: the host has answered and the answer is on its way back.     *)
(***************************************************************************)
Runs == {"refresh", "startup"}

MicrotaskQueued == {"afterCommand", "afterKeybinding", "afterActivation"}

\* the event loop takes no task of the host while a microtask is queued
NoMicrotaskQueued == \A q \in Runs : pc[q] \notin MicrotaskQueued

\* Merged with the registration mismatches first
Merged_RegistrationFirst(a, b, c, d) == d \o a \o b \o c

\* the order in which detectConflicts merges the four detectors' results
Merged(a, b, c, d) == a \o b \o c \o d

InProgress(r) == pc[r] \notin {"idle", "done"}

\* the <<extension id, command id>> of the commands that an active extension
\* declares and the table lacks
ActiveAndAbsent(exts, table) ==
    UNION {{<<exts[i].id, c>> : c \in Range(exts[i].commands) \ table} :
              i \in {j \in 1..Len(exts) : exts[j].isActive}}

\* the history after the host has changed the registry or the table
Witnessed(exts, table) ==
    [q \in Runs |-> IF InProgress(q) THEN moments[q] \cup ActiveAndAbsent(exts, table)
                    ELSE moments[q]]

\* DetectConflicts with `conflicts` a field of the detector that every run shares
DetectConflicts_SharedArray(r) ==
    /\ pc[r] = "idle"
    /\ conflicts' = [q \in Runs |-> detectCommandConflicts(extensions)]
    /\ seen' = [seen EXCEPT ![r] = <<extensions>>]
    /\ overlapped' = [q \in Runs |->
                        IF q = r THEN \E o \in Runs \ {r} : InProgress(o)
                        ELSE overlapped[q] \/ InProgress(q)]
    /\ moments' = [moments EXCEPT ![r] = ActiveAndAbsent(extensions, runtimeCommands)]
    /\ pc' = [pc EXCEPT ![r] = "afterCommand"]
    /\ UNCHANGED <<hostVars, fetched, fixVars, logVars, queryVars, cacheVars, sugVars>>

\* the synchronous start of detectConflicts: detectCommandConflicts runs to its end
DetectConflicts(r) ==
    /\ pc[r] = "idle"
    /\ conflicts' = [conflicts EXCEPT ![r] = detectCommandConflicts(extensions)]
    /\ seen' = [seen EXCEPT ![r] = <<extensions>>]
    /\ overlapped' = [q \in Runs |->
                        IF q = r THEN \E o \in Runs \ {r} : InProgress(o)
                        ELSE overlapped[q] \/ InProgress(q)]
    /\ moments' = [moments EXCEPT ![r] = ActiveAndAbsent(extensions, runtimeCommands)]
    /\ pc' = [pc EXCEPT ![r] = "afterCommand"]
    /\ UNCHANGED <<hostVars, fetched, fixVars, logVars, queryVars, cacheVars, sugVars>>

\* continuation of the first await: detectKeybindingConflicts runs to its end
ResumeKeybinding(r) ==
    /\ pc[r] = "afterCommand"
    /\ conflicts' = [conflicts EXCEPT
                       ![r] = Merged(@, detectKeybindingConflicts(extensions), <<>>, <<>>)]
    /\ seen' = [seen EXCEPT ![r] = Append(@, extensions)]
    /\ pc' = [pc EXCEPT ![r] = "afterKeybinding"]
    /\ UNCHANGED <<hostVars, fetched, overlapped, moments, fixVars, logVars, queryVars,
                   cacheVars, sugVars>>

\* continuation of the second await: detectActivationConflicts runs to its end
ResumeActivation(r) ==
    /\ pc[r] = "afterKeybinding"
    /\ conflicts' = [conflicts EXCEPT
                       ![r] = Merged(@, <<>>, detectActivationConflicts(extensions), <<>>)]
    /\ seen' = [seen EXCEPT ![r] = Append(@, extensions)]
    /\ pc' = [pc EXCEPT ![r] = "afterActivation"]
    /\ UNCHANGED <<hostVars, fetched, overlapped, moments, fixVars, logVars, queryVars,
                   cacheVars, sugVars>>

\* continuation of the third await: detectRegistrationMismatches calls getCommands
ResumeRegistration(r) ==
    /\ pc[r] = "afterActivation"
    /\ pc' = [pc EXCEPT ![r] = "awaitCommands"]
    /\ UNCHANGED <<hostVars, conflicts, fetched, seen, overlapped, moments, fixVars,
                   logVars, queryVars, cacheVars, sugVars>>

\* the host answers getCommands(true) from the Runtime Command Table
CommandsReply(r) ==
    /\ pc[r] = "awaitCommands"
    /\ fetched' = [fetched EXCEPT ![r] = runtimeCommands]
    /\ pc' = [pc EXCEPT ![r] = "replied"]
    /\ UNCHANGED <<hostVars, conflicts, seen, overlapped, moments, fixVars, logVars,
                   queryVars, cacheVars, sugVars>>

\* the answer arrives: the loop over vscode.extensions.all runs, and
\* detectConflicts pushes its result and returns
ResumeScan(r) ==
    /\ pc[r] = "replied"
    /\ conflicts' = [conflicts EXCEPT
                       ![r] = Merged(@, <<>>, <<>>,
                                     detectRegistrationMismatches(fetched[r], extensions))]
    /\ seen' = [seen EXCEPT ![r] = Append(@, extensions)]
    /\ pc' = [pc EXCEPT ![r] = "done"]
    /\ UNCHANGED <<hostVars, fetched, overlapped, moments, fixVars, logVars, queryVars,
                   cacheVars, sugVars>>

\* the caller has taken the returned list
Finish(r) ==
    /\ pc[r] = "done"
    /\ pc' = [pc EXCEPT ![r] = "idle"]
    /\ conflicts' = [conflicts EXCEPT ![r] = <<>>]
    /\ fetched' = [fetched EXCEPT ![r] = {}]
    /\ seen' = [seen EXCEPT ![r] = <<>>]
    /\ overlapped' = [overlapped EXCEPT ![r] = FALSE]
    /\ moments' = [moments EXCEPT ![r] = {}]
    /\ UNCHANGED <<hostVars, fixVars, logVars, queryVars, cacheVars, sugVars>>

RunStep(r) ==
    \/ DetectConflicts(r)
    \/ ResumeKeybinding(r)
    \/ ResumeActivation(r)
    \/ ResumeRegistration(r)
    \/ CommandsReply(r)
    \/ ResumeScan(r)
    \/ Finish(r)

RunsIdle ==
    /\ pc = [r \in Runs |-> "idle"]
    /\ conflicts = [r \in Runs |-> <<>>]
    /\ fetched = [r \in Runs |-> {}]
    /\ seen = [r \in Runs |-> <<>>]
    /\ overlapped = [r \in Runs |-> FALSE]
    /\ moments = [r \in Runs |-> {}]

(***************************************************************************)
(* Registries the analysis is checked on.  The extension at position i is  *)
(* named ext<i>; odd positions carry a displayName, even ones fall back to *)
(* the package name.                                                       *)
(***************************************************************************)
CmdIds == {"foo.bar", "baz.qux"}

Ext(i, publisher, isActive, commands, keybindings, activationEvents) ==
    [id               |-> [publisher |-> publisher, name |-> "ext" \o ToString(i)],
     displayName      |-> IF i % 2 = 1 THEN "Display " \o ToString(i) ELSE "",
     name             |-> "ext" \o ToString(i),
     isActive         |-> isActive,
     commands         |-> commands,
     keybindings      |-> keybindings,
     activationEvents |-> activationEvents]

(***************************************************************************)
(* The host changes the registry and the command table while the engine    *)
(* runs: an extension is installed or removed, or activates and registers  *)
(* commands.  These are tasks of the event loop, so none runs while a      *)
(* continuation of a run is queued as a microtask.  (The runs themselves   *)
(* may be started from any continuation, so they interleave freely.)       *)
(***************************************************************************)
FirstExt == Ext(1, "acme", FALSE, <<"foo.bar">>, <<>>, <<>>)

\* what can be installed while the engine runs
InstallPool == {Ext(2, "acme", FALSE, <<"foo.bar">>, <<>>, <<"*">>)}

\* vscode.extensions.getExtension(id) finds an extension
Installed(id) == \E i \in 1..Len(extensions) : extensions[i].id = id

Install(ext) ==
    /\ NoMicrotaskQueued
    /\ Len(extensions) < MaxExts
    /\ ~Installed(ext.id)
    /\ extensions' = Append(extensions, ext)
    /\ moments' = Witnessed(extensions', runtimeCommands)
    /\ UNCHANGED <<runtimeCommands, pc, conflicts, fetched, seen, overlapped, fixVars,
                   logVars, queryVars, cacheVars, sugVars>>

Uninstall(i) ==
    /\ NoMicrotaskQueued
    /\ extensions' = SubSeq(extensions, 1, i - 1) \o SubSeq(extensions, i + 1, Len(extensions))
    /\ moments' = Witnessed(extensions', runtimeCommands)
    /\ UNCHANGED <<runtimeCommands, pc, conflicts, fetched, seen, overlapped, fixVars,
                   logVars, queryVars, cacheVars, sugVars>>

\* extension i activates; its activate() registers the commands in `registered`
Activate(i, registered) ==
    /\ NoMicrotaskQueued
    /\ ~extensions[i].isActive
    /\ extensions' = [extensions EXCEPT ![i].isActive = TRUE]
    /\ runtimeCommands' = runtimeCommands \cup registered
    /\ moments' = Witnessed(extensions', runtimeCommands')
    /\ UNCHANGED <<pc, conflicts, fetched, seen, overlapped, fixVars, logVars,
                   queryVars, cacheVars, sugVars>>

HostStep ==
    \/ \E ext \in InstallPool : Install(ext)
    \/ \E i \in 1..Len(extensions) : Uninstall(i)
    \/ \E i \in 1..Len(extensions) :
          \E registered \in SUBSET Range(extensions[i].commands) : Activate(i, registered)

(***************************************************************************)
(* Remediation.  A package.json document is kept as what JSON.parse makes  *)
(* of its text: whether it parses, whether it has an activationEvents      *)
(* member, and that member.                                                *)
(***************************************************************************)
Document(parses, hasEvents, events) ==
    [parses |-> parses, hasEvents |-> hasEvents, activationEvents |-> events]

\* the activation events of the model in the order of Array.prototype.sort
\* (by UTF-16 code units)
EventOrder ==
    <<"*", "onCommand:baz.qux", "onCommand:foo.bar", "onLanguage:a", "onLanguage:b",
      "onStartupFinished">>

EventRank(e) == CHOOSE n \in 1..Len(EventOrder) : EventOrder[n] = e

\* json.activationEvents.sort(): insertion of s[Len(s)] into the sorted rest
RECURSIVE SortEvents(_)
SortEvents(s) ==
    IF s = <<>> THEN <<>>
    ELSE LET rest   == SortEvents(SubSeq(s, 1, Len(s) - 1))
             last   == s[Len(s)]
             before == SelectSeq(rest, LAMBDA e : EventRank(e) <= EventRank(last))
             after  == SelectSeq(rest, LAMBDA e : EventRank(e) > EventRank(last))
         IN  before \o <<last>> \o after

\* conflicts.filter(c => c.type === 'registration' && c.extensionId &&
\*                       c.description.includes('missing "onCommand:'))
IsMissingEvent(c) ==
    c.type = "registration" /\ c.extensionId # NoExt /\ c.description = "missing-onCommand"

\* extensionGroups: one <<extId, commandIds>> per extension id, in insertion order
ExtensionGroups(missingEvents) ==
    LET pushes == [n \in 1..Len(missingEvents) |->
                      <<missingEvents[n].extensionId, missingEvents[n].id>>]
        extIds == PushedKeys(pushes)
    IN  [g \in 1..Len(extIds) |-> <<extIds[g], Pushed(pushes, extIds[g])>>]

\* AppendMissing without the includes test: every grouped id is pushed
RECURSIVE AppendMissing_NoIncludesTest(_, _)
AppendMissing_NoIncludesTest(events, commandIds) ==
    IF commandIds = <<>> THEN events
    ELSE AppendMissing_NoIncludesTest(Append(events, OnCommand(Head(commandIds))),
                                      Tail(commandIds))

\* the loop `for (const cmdId of commandIds)` over json.activationEvents
RECURSIVE AppendMissing(_, _)
AppendMissing(events, commandIds) ==
    IF commandIds = <<>> THEN events
    ELSE LET newEvent == OnCommand(Head(commandIds))
         IN  AppendMissing(IF Includes(events, newEvent) THEN events
                           ELSE Append(events, newEvent),
                           Tail(commandIds))

\* GroupEdit without json.activationEvents.sort()
GroupEdit_Unsorted(extId, commandIds, document) ==
    LET original == IF document.hasEvents THEN document.activationEvents ELSE <<>>
        appended == AppendMissing(original, commandIds)
    IN  IF Len(appended) > Len(original)
        THEN <<[uri |-> extId, text |-> Document(TRUE, TRUE, appended)]>>
        ELSE <<>>

\* the replacement edits one group adds to the WorkspaceEdit (none or one)
GroupEdit(extId, commandIds, document) ==
    LET original == IF document.hasEvents THEN document.activationEvents ELSE <<>>
        appended == AppendMissing(original, commandIds)
    IN  IF Len(appended) > Len(original)
        THEN <<[uri |-> extId, text |-> Document(TRUE, TRUE, SortEvents(appended))]>>
        ELSE <<>>

FixIdle == [pc |-> "idle", fetched |-> {}, groups |-> <<>>, next |-> 1, edit |-> <<>>,
            \* the applyEdit calls of this run, and what the last one answered
            calls |-> 0, answer |-> FALSE,
            result |-> FALSE,
            \* history: the apply call of an earlier run succeeded; with an edit
            applied |-> FALSE, edited |-> FALSE]

\* fixAllMissingActivationEvents is called: detectRegistrationMismatches calls getCommands
FixAll ==
    /\ fix.pc = "idle"
    /\ fix' = [fix EXCEPT !.pc = "awaitCommands"]
    /\ messages' = <<>>
    /\ UNCHANGED <<hostVars, runVars, documents, clipboard, single, logVars, queryVars,
                   cacheVars, sugVars>>

\* the host answers getCommands(true)
FixCommandsReply ==
    /\ fix.pc = "awaitCommands"
    /\ fix' = [fix EXCEPT !.pc = "replied", !.fetched = runtimeCommands]
    /\ UNCHANGED <<hostVars, runVars, documents, clipboard, messages, single, logVars,
                   queryVars, cacheVars, sugVars>>

\* the answer arrives: the conflicts are detected, filtered and grouped
FixScan ==
    /\ fix.pc = "replied"
    /\ LET found == detectRegistrationMismatches(fix.fetched, extensions)
           missingEvents == SelectSeq(found, IsMissingEvent)
       IN  IF missingEvents = <<>>
           THEN /\ messages' = Append(messages, [kind |-> "info", text |-> "none-missing",
                                                 arg |-> 0])
                /\ fix' = [fix EXCEPT !.pc = "done", !.result = TRUE]
           ELSE /\ messages' = messages
                /\ fix' = [fix EXCEPT !.pc = "groups",
                                      !.groups = ExtensionGroups(missingEvents),
                                      !.next = 1, !.edit = <<>>]
    /\ UNCHANGED <<hostVars, runVars, documents, clipboard, single, logVars, queryVars,
                   cacheVars, sugVars>>

\* FixGroup with the try block around the whole loop: a manifest that does not
\* parse is reported and ends the loop
FixGroup_TryAroundLoop ==
    /\ fix.pc = "groups"
    /\ fix.next <= Len(fix.groups)
    /\ LET extId == fix.groups[fix.next][1]
           commandIds == fix.groups[fix.next][2]
       IN  IF ~Installed(extId)
           THEN /\ fix' = [fix EXCEPT !.next = @ + 1]
                /\ messages' = messages
           ELSE IF ~documents[extId].parses
           THEN /\ fix' = [fix EXCEPT !.next = Len(fix.groups) + 1]
                /\ messages' = Append(messages, [kind |-> "error", text |-> "failed",
                                                 arg |-> extId])
           ELSE /\ fix' = [fix EXCEPT !.next = @ + 1,
                                      !.edit = @ \o GroupEdit(extId, commandIds,
                                                              documents[extId])]
                /\ messages' = messages
    /\ UNCHANGED <<hostVars, runVars, documents, clipboard, single, logVars, queryVars,
                   cacheVars, sugVars>>

\* one pass of `for (const [extId, commandIds] of extensionGroups.entries())`
FixGroup ==
    /\ fix.pc = "groups"
    /\ fix.next <= Len(fix.groups)
    /\ LET extId == fix.groups[fix.next][1]
           commandIds == fix.groups[fix.next][2]
       IN  IF ~Installed(extId)
           THEN /\ fix' = [fix EXCEPT !.next = @ + 1]
                /\ messages' = messages
           ELSE IF ~documents[extId].parses
           THEN /\ fix' = [fix EXCEPT !.next = @ + 1]
                /\ messages' = Append(messages, [kind |-> "error", text |-> "failed",
                                                 arg |-> extId])
           ELSE /\ fix' = [fix EXCEPT !.next = @ + 1,
                                      !.edit = @ \o GroupEdit(extId, commandIds,
                                                              documents[extId])]
                /\ messages' = messages
    /\ UNCHANGED <<hostVars, runVars, documents, clipboard, single, logVars, queryVars,
                   cacheVars, sugVars>>

\* after the loop: vscode.workspace.applyEdit(edit) is called
FixApply ==
    /\ fix.pc = "groups"
    /\ fix.next > Len(fix.groups)
    /\ fix' = [fix EXCEPT !.pc = "awaitApply", !.calls = @ + 1]
    /\ UNCHANGED <<hostVars, runVars, documents, clipboard, messages, single, logVars,
                   queryVars, cacheVars, sugVars>>

\* the documents after the host has applied the edit
Applied(docs, edit) ==
    [id \in DOMAIN docs |->
        IF \E n \in 1..Len(edit) : edit[n].uri = id
        THEN edit[CHOOSE n \in 1..Len(edit) : edit[n].uri = id].text
        ELSE docs[id]]

\* FixApplied that returns true whatever applyEdit answered
FixApplied_ReturnsTrue(success) ==
    /\ fix.pc = "awaitApply"
    /\ documents' = IF success THEN Applied(documents, fix.edit) ELSE documents
    /\ messages' = messages
    /\ fix' = [fix EXCEPT !.pc = "done", !.answer = success, !.result = TRUE]
    /\ UNCHANGED <<hostVars, runVars, clipboard, single, logVars, queryVars, cacheVars,
                   sugVars>>

\* applyEdit answers: all replacements are applied, or none
FixApplied(success) ==
    /\ fix.pc = "awaitApply"
    /\ documents' = IF success THEN Applied(documents, fix.edit) ELSE documents
    /\ messages' = IF success
                   THEN Append(messages, [kind |-> "info", text |-> "updated",
                                          arg |-> Len(fix.groups)])
                   ELSE messages
    /\ fix' = [fix EXCEPT !.pc = "done", !.answer = success, !.result = success]
    /\ UNCHANGED <<hostVars, runVars, clipboard, single, logVars, queryVars, cacheVars,
                   sugVars>>

\* the caller has taken the returned boolean
FixReturn ==
    /\ fix.pc = "done"
    /\ fix' = [FixIdle EXCEPT
                  !.applied = fix.applied \/ (fix.result /\ fix.groups # <<>>),
                  !.edited = fix.edited \/ (fix.result /\ fix.edit # <<>>)]
    /\ UNCHANGED <<hostVars, runVars, documents, clipboard, messages, single, logVars,
                   queryVars, cacheVars, sugVars>>

FixAllStep ==
    \/ FixAll
    \/ FixCommandsReply
    \/ FixScan
    \/ FixGroup
    \/ FixApply
    \/ \E success \in BOOLEAN : FixApplied(success)
    \/ FixReturn

(***************************************************************************)
(* fixMissingActivationEvents: the single-conflict path.                   *)
(***************************************************************************)
SingleIdle == [pc |-> "idle", conflict |-> Conflict("", "", "", <<>>, "", NoExt),
               \* clipboard.writeText was called and failed
               failed |-> FALSE,
               result |-> FALSE]

\* the call: the notification with the 'Copy to Clipboard' button is shown
FixMissingActivationEvents(conflict) ==
    /\ single.pc = "idle"
    /\ single' = [single EXCEPT !.pc = "awaitSelection", !.conflict = conflict]
    /\ messages' = <<[kind |-> "info", text |-> "manual-fix",
                      arg |-> OnCommand(conflict.id)]>>
    /\ UNCHANGED <<hostVars, runVars, documents, clipboard, fix, logVars, queryVars,
                   cacheVars, sugVars>>

\* FixSelection as it was before 0.3.3: the manifest is patched as well
FixSelection_PatchesManifest(selection, written) ==
    /\ single.pc = "awaitSelection"
    /\ clipboard' = IF selection = "Copy to Clipboard" /\ written
                    THEN OnCommand(single.conflict.id) ELSE clipboard
    /\ documents' = [id \in DOMAIN documents |->
                        Document(TRUE, TRUE,
                                 Append(documents[id].activationEvents,
                                        OnCommand(single.conflict.id)))]
    /\ single' = [single EXCEPT !.pc = "done", !.result = TRUE,
                                !.failed = (selection = "Copy to Clipboard" /\ ~written)]
    /\ UNCHANGED <<hostVars, runVars, messages, fix, logVars, queryVars, cacheVars,
                   sugVars>>

\* the user answers the notification (or dismisses it); the clipboard write, if
\* any, succeeds or fails; the function returns true
FixSelection(selection, written) ==
    /\ single.pc = "awaitSelection"
    /\ clipboard' = IF selection = "Copy to Clipboard" /\ written
                    THEN OnCommand(single.conflict.id) ELSE clipboard
    /\ single' = [single EXCEPT !.pc = "done", !.result = TRUE,
                                !.failed = (selection = "Copy to Clipboard" /\ ~written)]
    /\ UNCHANGED <<hostVars, runVars, documents, messages, fix, logVars, queryVars,
                   cacheVars, sugVars>>

\* the caller has taken the returned boolean
SingleReturn ==
    /\ single.pc = "done"
    /\ single' = SingleIdle
    /\ UNCHANGED <<hostVars, runVars, documents, clipboard, messages, fix, logVars,
                   queryVars, cacheVars, sugVars>>

\* the conflicts the panel can hand to the single-conflict path
ShownConflicts ==
    LET shown == detectCommandConflicts(extensions)
                 \o detectActivationConflicts(extensions)
                 \o detectRegistrationMismatches(runtimeCommands, extensions)
    IN  Range(shown)

SingleStep ==
    \/ \E conflict \in ShownConflicts : FixMissingActivationEvents(conflict)
    \/ \E selection \in {"Copy to Clipboard", "dismissed"} :
          \E written \in BOOLEAN : FixSelection(selection, written)
    \/ SingleReturn

(***************************************************************************)
(* LogMonitor.readFile.  The log file is kept as its size in bytes; the    *)
(* extension that owns it may append to it at any time.  What readFile     *)
(* returns is kept as the window of file bytes in it and whether the       *)
(* truncation marker precedes them.  Every awaited call may be rejected.   *)
(***************************************************************************)
MAX_BYTES == 50 * 1024

\* the string readFile returns: marker?, then `bytes` bytes of the file from `from`
Returned(marker, from, bytes) == [marker |-> marker, from |-> from, bytes |-> bytes]

\* return ''
Empty == Returned(FALSE, 0, 0)

ReaderIdle == [pc |-> "idle", size |-> 0, fd |-> "none", result |-> Empty]

\* the owner of the log appends n bytes
AppendToLog(n) ==
    /\ file.appends < MaxAppends
    /\ file' = [size |-> file.size + n, appends |-> file.appends + 1]
    /\ UNCHANGED <<hostVars, runVars, fixVars, reader, parse, queryVars, cacheVars,
                   sugVars>>

\* readFile is called: fs.promises.stat(filePath)
ReadFile ==
    /\ reader.pc = "idle"
    /\ reader' = [reader EXCEPT !.pc = "awaitStat"]
    /\ UNCHANGED <<hostVars, runVars, fixVars, file, parse, queryVars, cacheVars,
                   sugVars>>

\* stat answers; the small file is read whole, the large one is opened
StatReply(ok) ==
    /\ reader.pc = "awaitStat"
    /\ reader' = IF ~ok THEN [reader EXCEPT !.pc = "done", !.result = Empty]
                 ELSE [reader EXCEPT !.size = file.size,
                                     !.pc = IF file.size <= MAX_BYTES THEN "awaitReadFile"
                                            ELSE "awaitOpen"]
    /\ UNCHANGED <<hostVars, runVars, fixVars, file, parse, queryVars, cacheVars,
                   sugVars>>

\* vscode.workspace.fs.readFile(uri) answers with the whole file as it is now
ReadFileReply(ok) ==
    /\ reader.pc = "awaitReadFile"
    /\ reader' = [reader EXCEPT !.pc = "done",
                                !.result = IF ok THEN Returned(FALSE, 0, file.size)
                                           ELSE Empty]
    /\ UNCHANGED <<hostVars, runVars, fixVars, file, parse, queryVars, cacheVars,
                   sugVars>>

\* fs.promises.open(filePath, 'r') answers
OpenReply(ok) ==
    /\ reader.pc = "awaitOpen"
    /\ reader' = IF ok THEN [reader EXCEPT !.pc = "awaitRead", !.fd = "open"]
                 ELSE [reader EXCEPT !.pc = "done", !.result = Empty]
    /\ UNCHANGED <<hostVars, runVars, fixVars, file, parse, queryVars, cacheVars,
                   sugVars>>

\* fd.read(buffer, 0, MAX_BYTES, size - MAX_BYTES) answers; a rejection is caught
\* with the handle still open
PositionedReadReply(ok) ==
    /\ reader.pc = "awaitRead"
    /\ reader' = IF ok THEN [reader EXCEPT !.pc = "awaitClose"]
                 ELSE [reader EXCEPT !.pc = "done", !.result = Empty]
    /\ UNCHANGED <<hostVars, runVars, fixVars, file, parse, queryVars, cacheVars,
                   sugVars>>

\* fd.close() answers; the marker and the buffer are returned
CloseReply(ok) ==
    /\ reader.pc = "awaitClose"
    /\ reader' = IF ok
                 THEN [reader EXCEPT !.pc = "done", !.fd = "closed",
                                     !.result = Returned(TRUE, reader.size - MAX_BYTES,
                                                         MAX_BYTES)]
                 ELSE [reader EXCEPT !.pc = "done", !.result = Empty]
    /\ UNCHANGED <<hostVars, runVars, fixVars, file, parse, queryVars, cacheVars,
                   sugVars>>

\* getLogs has taken the returned string
ReadReturn ==
    /\ reader.pc = "done"
    /\ reader' = ReaderIdle
    /\ UNCHANGED <<hostVars, runVars, fixVars, file, parse, queryVars, cacheVars,
                   sugVars>>

ReadStep ==
    \/ ReadFile
    \/ \E ok \in BOOLEAN : StatReply(ok)
    \/ \E ok \in BOOLEAN : ReadFileReply(ok)
    \/ \E ok \in BOOLEAN : OpenReply(ok)
    \/ \E ok \in BOOLEAN : PositionedReadReply(ok)
    \/ \E ok \in BOOLEAN : CloseReply(ok)
    \/ ReadReturn

(***************************************************************************)
(* LogMonitor.parseLogContent and normalizeLevel, on text kept character   *)
(* by character.                                                           *)
(***************************************************************************)
Newline == "\n"

\* the characters `.` does not match
LineTerminators == {"\n", "\r"}

\* content.split('\n'): the piece before the first newline, then the pieces of
\* the rest
RECURSIVE Split(_)
Split(text) ==
    LET breaks == {i \in 1..Len(text) : text[i] = Newline}
    IN  IF breaks = {} THEN <<text>>
        ELSE LET first == CHOOSE i \in breaks : \A j \in breaks : i <= j
             IN  <<SubSeq(text, 1, first - 1)>> \o Split(SubSeq(text, first + 1, Len(text)))

\* String.prototype.includes
IncludesText(str, pat) == \E i \in 1..(Len(str) + 1) : MatchesAt(str, pat, i)

\* line.trim()
Trim(line) ==
    LET inked == {i \in 1..Len(line) : line[i] \notin Whitespace}
    IN  IF inked = {} THEN <<>>
        ELSE SubSeq(line, CHOOSE i \in inked : \A j \in inked : i <= j,
                          CHOOSE i \in inked : \A j \in inked : j <= i)

\* normalizeLevel that tests for 'warn' before 'err'
normalizeLevel_WarnFirst(level) ==
    LET lower == toLowerCase(level)
    IN  IF IncludesText(lower, <<"w", "a", "r", "n">>) THEN "warn"
        ELSE IF IncludesText(lower, <<"e", "r", "r">>) THEN "error"
        ELSE IF IncludesText(lower, <<"d", "e", "b", "u", "g">>)
                \/ IncludesText(lower, <<"t", "r", "a", "c", "e">>) THEN "debug"
        ELSE "info"

normalizeLevel(level) ==
    LET lower == toLowerCase(level)
    IN  IF IncludesText(lower, <<"e", "r", "r">>) THEN "error"
        ELSE IF IncludesText(lower, <<"w", "a", "r", "n">>) THEN "warn"
        ELSE IF IncludesText(lower, <<"d", "e", "b", "u", "g">>)
                \/ IncludesText(lower, <<"t", "r", "a", "c", "e">>) THEN "debug"
        ELSE "info"

\* (.*?) or (.*) over line[from..to]
Dots(line, from, to) == \A i \in from..to : line[i] \notin LineTerminators

\* the positions at which pat occurs in the line
Occurs(line, pat) == {i \in 1..Len(line) : MatchesAt(line, pat, i)}

\* the ways /^\[(.*?)\] \[(.*?)\] \[(.*?)\] (.*)$/ fits the line: <<a, b, c>> are
\* the positions of the "]" that close the three bracketed groups
Fits(line) ==
    {f \in Occurs(line, <<"]", " ", "[">>) \X Occurs(line, <<"]", " ", "[">>)
           \X Occurs(line, <<"]", " ">>) :
        /\ line[1] = "["
        /\ Dots(line, 2, f[1] - 1)
        /\ f[1] + 3 <= f[2]
        /\ Dots(line, f[1] + 3, f[2] - 1)
        /\ f[2] + 3 <= f[3]
        /\ Dots(line, f[2] + 3, f[3] - 1)
        /\ Dots(line, f[3] + 2, Len(line))}

\* the lazy groups take the first fit in the order backtracking tries them
Earlier(f, g) ==
    \/ f[1] < g[1]
    \/ f[1] = g[1] /\ f[2] < g[2]
    \/ f[1] = g[1] /\ f[2] = g[2] /\ f[3] <= g[3]

\* line.match(regExp): the captured groups, or null
NoMatch == <<>>

Match(line) ==
    IF Fits(line) = {} THEN NoMatch
    ELSE LET f == CHOOSE f \in Fits(line) : \A g \in Fits(line) : Earlier(f, g)
         IN  <<SubSeq(line, 2, f[1] - 1),
               SubSeq(line, f[1] + 3, f[2] - 1),
               SubSeq(line, f[2] + 3, f[3] - 1),
               SubSeq(line, f[3] + 2, Len(line))>>

Exthost == <<"e", "x", "t", "h", "o", "s", "t">>

\* ParseLines that keeps the channel of every line as the entry's source
RECURSIVE ParseLines_KeepsChannel(_, _, _)
ParseLines_KeepsChannel(lines, source, sofar) ==
    IF lines = <<>> THEN sofar
    ELSE LET line  == Head(lines)
             match == Match(line)
         IN  IF match # NoMatch
             THEN ParseLines_KeepsChannel(Tail(lines), source,
                             Append(sofar,
                                    [timestamp |-> match[1],
                                     source |-> match[2],
                                     level |-> normalizeLevel(match[3]),
                                     message |-> match[4]]))
             ELSE IF Trim(line) # <<>> /\ Len(sofar) > 0
             THEN ParseLines_KeepsChannel(Tail(lines), source,
                             [sofar EXCEPT ![Len(sofar)].message = @ \o <<Newline>> \o line])
             ELSE ParseLines_KeepsChannel(Tail(lines), source, sofar)

\* ParseLines without the trim test: a line of blanks is appended as well
RECURSIVE ParseLines_AppendsBlankLines(_, _, _)
ParseLines_AppendsBlankLines(lines, source, sofar) ==
    IF lines = <<>> THEN sofar
    ELSE LET line  == Head(lines)
             match == Match(line)
         IN  IF match # NoMatch
             THEN ParseLines_AppendsBlankLines(
                      Tail(lines), source,
                      Append(sofar, [timestamp |-> match[1],
                                     source |-> IF match[2] = Exthost THEN source
                                                ELSE match[2],
                                     level |-> normalizeLevel(match[3]),
                                     message |-> match[4]]))
             ELSE IF line # <<>> /\ Len(sofar) > 0
             THEN ParseLines_AppendsBlankLines(
                      Tail(lines), source,
                      [sofar EXCEPT ![Len(sofar)].message = @ \o <<Newline>> \o line])
             ELSE ParseLines_AppendsBlankLines(Tail(lines), source, sofar)

\* the loop `for (const line of lines)`; sofar is the `entries` array
RECURSIVE ParseLines(_, _, _)
ParseLines(lines, source, sofar) ==
    IF lines = <<>> THEN sofar
    ELSE LET line  == Head(lines)
             match == Match(line)
         IN  IF match # NoMatch
             THEN ParseLines(Tail(lines), source,
                             Append(sofar,
                                    [timestamp |-> match[1],
                                     source |-> IF match[2] = Exthost THEN source
                                                ELSE match[2],
                                     level |-> normalizeLevel(match[3]),
                                     message |-> match[4]]))
             ELSE IF Trim(line) # <<>> /\ Len(sofar) > 0
             THEN ParseLines(Tail(lines), source,
                             [sofar EXCEPT ![Len(sofar)].message = @ \o <<Newline>> \o line])
             ELSE ParseLines(Tail(lines), source, sofar)

parseLogContent(text, source) == ParseLines(Split(text), source, <<>>)

\* getLogs hands the text of a log file to parseLogContent
ParseLogContent ==
    /\ ~parse.returned
    /\ parse' = [parse EXCEPT !.returned = TRUE,
                              !.entries = parseLogContent(parse.content, parse.source)]
    /\ UNCHANGED <<hostVars, runVars, fixVars, file, reader, queryVars, cacheVars,
                   sugVars>>

(***************************************************************************)
(* LogMonitor.getLoggedExtensions, getLogs and getRecentErrors.            *)
(***************************************************************************)
\* the characters of the model's timestamps in the order of the collation that
\* String.prototype.localeCompare applies: digits first, then letters in
\* alphabetical order, whatever their case
CollationOrder == <<"0", "1", "2", "3", "a", "B">>

\* comparison of two strings, character by character, under an order of the
\* characters: negative, zero or positive
RECURSIVE Compare(_, _, _)
Compare(order, a, b) ==
    LET Rank(c) == CHOOSE n \in 1..Len(order) : order[n] = c
    IN  IF a = <<>> /\ b = <<>> THEN 0
        ELSE IF a = <<>> THEN -1
        ELSE IF b = <<>> THEN 1
        ELSE IF Rank(Head(a)) < Rank(Head(b)) THEN -1
        ELSE IF Rank(Head(a)) > Rank(Head(b)) THEN 1
        ELSE Compare(order, Tail(a), Tail(b))

\* a.localeCompare(b)
localeCompare(a, b) == Compare(CollationOrder, a, b)

\* Array.prototype.sort (stable) with the comparator
\*   (a, b) => a.timestamp.localeCompare(b.timestamp), or, descending,
\*   (a, b) => b.timestamp.localeCompare(a.timestamp):
\* insertion of the last element into the sorted rest
RECURSIVE SortEntries(_, _)
SortEntries(entries, descending) ==
    IF entries = <<>> THEN <<>>
    ELSE LET rest   == SortEntries(SubSeq(entries, 1, Len(entries) - 1), descending)
             last   == entries[Len(entries)]
             Comparator(a, b) == IF descending
                                 THEN localeCompare(b.timestamp, a.timestamp)
                                 ELSE localeCompare(a.timestamp, b.timestamp)
             before == SelectSeq(rest, LAMBDA e : Comparator(e, last) <= 0)
             after  == SelectSeq(rest, LAMBDA e : Comparator(e, last) > 0)
         IN  before \o <<last>> \o after

\* array.slice(0, limit)
Slice(array, limit) ==
    LET end == IF limit < 0 THEN (IF Len(array) + limit < 0 THEN 0 ELSE Len(array) + limit)
               ELSE IF limit > Len(array) THEN Len(array) ELSE limit
    IN  SubSeq(array, 1, end)

\* getLoggedExtensions: the names of the directories in the root log directory; no
\* name when the root cannot be determined or readDirectory rejects
getLoggedExtensions(dir) ==
    IF ~dir.root \/ ~dir.listable THEN <<>>
    ELSE MapSeq(LAMBDA e : e.name, SelectSeq(dir.entries, LAMBDA e : e.directory))

\* what readFile returns for a log file below MAX_BYTES: its text, '' when
\* reading it throws
FileContent(f) == IF f.readable THEN f.text ELSE <<>>

\* getLogs whose readFile has no catch of its own: the rejection of one file's
\* read is caught by getLogs
getLogs_ReadFileRejects(dir, extensionId) ==
    LET found == SelectSeq(dir.entries, LAMBDA e : e.name = extensionId)
    IN  IF ~dir.root THEN <<>>
        ELSE IF found = <<>> \/ ~found[1].directory \/ ~found[1].listable THEN <<>>
        ELSE LET logFiles == SelectSeq(found[1].files, LAMBDA f : f.log)
                 allLogs  == FlatMap(LAMBDA f : parseLogContent(f.text, extensionId),
                                     logFiles)
             IN  IF \E n \in 1..Len(logFiles) : ~logFiles[n].readable THEN <<>>
                 ELSE SortEntries(allLogs, FALSE)

\* getLogs(extensionId): no entry when the root cannot be determined or
\* readDirectory of the extension's directory rejects (the catch block); else the
\* entries of its .log files, sorted by timestamp
getLogs(dir, extensionId) ==
    LET found == SelectSeq(dir.entries, LAMBDA e : e.name = extensionId)
    IN  IF ~dir.root THEN <<>>
        ELSE IF found = <<>> \/ ~found[1].directory \/ ~found[1].listable THEN <<>>
        ELSE LET logFiles == SelectSeq(found[1].files, LAMBDA f : f.log)
                 allLogs  == FlatMap(LAMBDA f : parseLogContent(FileContent(f),
                                                                extensionId),
                                     logFiles)
             IN  SortEntries(allLogs, FALSE)

\* no query is running; raised: the last query ended in an exception
QueryIdle == [pc |-> "idle", op |-> "", extensionId |-> <<>>, limit |-> 0,
              shown |-> FALSE, extensions |-> <<>>, next |-> 1, allErrors |-> <<>>,
              result |-> <<>>, raised |-> FALSE]

\* getLogs(extensionId) is called and returns; every rejection inside it is
\* caught, so it does not raise
GetLogs(extensionId) ==
    /\ query.pc = "idle"
    /\ query' = [QueryIdle EXCEPT !.pc = "done", !.op = "getLogs",
                                  !.extensionId = extensionId,
                                  !.result = getLogs(logDir, extensionId)]
    /\ UNCHANGED <<hostVars, runVars, fixVars, logVars, logDir, cacheVars, sugVars>>

\* getRecentErrors(limit) is called: the scanning message is shown when the root
\* is known, and getLoggedExtensions is awaited
GetRecentErrors(limit) ==
    /\ query.pc = "idle"
    /\ query' = [QueryIdle EXCEPT !.pc = "awaitExtensions", !.op = "getRecentErrors",
                                  !.limit = limit, !.shown = logDir.root]
    /\ UNCHANGED <<hostVars, runVars, fixVars, logVars, logDir, cacheVars, sugVars>>

\* getLoggedExtensions answers
LoggedExtensionsReply ==
    /\ query.pc = "awaitExtensions"
    /\ query' = [query EXCEPT !.pc = "collecting",
                              !.extensions = getLoggedExtensions(logDir)]
    /\ UNCHANGED <<hostVars, runVars, fixVars, logVars, logDir, cacheVars, sugVars>>

\* one pass of `for (const extId of extensions)`
CollectErrors ==
    /\ query.pc = "collecting"
    /\ query.next <= Len(query.extensions)
    /\ LET logs == getLogs(logDir, query.extensions[query.next])
       IN  query' = [query EXCEPT !.next = @ + 1,
                                  !.allErrors = @ \o SelectSeq(logs, LAMBDA l :
                                                                 l.level = "error")]
    /\ UNCHANGED <<hostVars, runVars, fixVars, logVars, logDir, cacheVars, sugVars>>

\* after the loop: allErrors.sort(...).slice(0, limit) is returned
RecentErrorsReturn ==
    /\ query.pc = "collecting"
    /\ query.next > Len(query.extensions)
    /\ query' = [query EXCEPT !.pc = "done",
                              !.result = Slice(SortEntries(query.allErrors, TRUE),
                                               query.limit)]
    /\ UNCHANGED <<hostVars, runVars, fixVars, logVars, logDir, cacheVars, sugVars>>

\* the caller has taken the result
QueryReturn ==
    /\ query.pc = "done"
    /\ query' = QueryIdle
    /\ UNCHANGED <<hostVars, runVars, fixVars, logVars, logDir, cacheVars, sugVars>>

(***************************************************************************)
(* CommandRegistry.getAllCommands.  A CommandInfo list is kept as the set   *)
(* of the command ids it lists.  replies, listOf and stampOf are history:   *)
(* the answers of getCommands so far, each with the `now` of the call that  *)
(* fetched it and the number of that call, and the answers that the stored  *)
(* list and the stored timestamp come from.                                 *)
(***************************************************************************)
CACHE_DURATION == 5000

Callers == {"panel", "search"}

MemoEmpty == [commandCache |-> {}, lastUpdate |-> 0, started |-> 0, replies |-> <<>>,
              listOf |-> 0, stampOf |-> 0]

CallIdle == [pc |-> "idle", now |-> 0, order |-> 0, hit |-> FALSE, fetch |-> 0,
             commands |-> {}, result |-> {}]

\* no continuation of a getAllCommands call is queued as a microtask
NoStoreQueued == \A c \in Callers : calls[c].pc # "replied"

\* GetAllCommands that answers from a memo of any age
GetAllCommands_IgnoresAge(c) ==
    /\ calls[c].pc = "idle"
    /\ NoStoreQueued
    /\ memo.started < MaxCalls
    /\ memo' = [memo EXCEPT !.started = @ + 1]
    /\ calls' = [calls EXCEPT ![c] =
                    IF memo.commandCache # {}
                    THEN [CallIdle EXCEPT !.pc = "done", !.now = clock,
                                          !.order = memo.started + 1, !.hit = TRUE,
                                          !.fetch = memo.listOf,
                                          !.result = memo.commandCache]
                    ELSE [CallIdle EXCEPT !.pc = "awaitCommands", !.now = clock,
                                          !.order = memo.started + 1]]
    /\ UNCHANGED <<hostVars, runVars, fixVars, logVars, queryVars, clock, sugVars>>

\* getAllCommands is called: it returns the memo, or calls getCommands(true)
GetAllCommands(c) ==
    /\ calls[c].pc = "idle"
    /\ NoStoreQueued
    /\ memo.started < MaxCalls
    /\ memo' = [memo EXCEPT !.started = @ + 1]
    /\ calls' = [calls EXCEPT ![c] =
                    IF clock - memo.lastUpdate < CACHE_DURATION /\ memo.commandCache # {}
                    THEN [CallIdle EXCEPT !.pc = "done", !.now = clock,
                                          !.order = memo.started + 1, !.hit = TRUE,
                                          !.fetch = memo.listOf,
                                          !.result = memo.commandCache]
                    ELSE [CallIdle EXCEPT !.pc = "awaitCommands", !.now = clock,
                                          !.order = memo.started + 1]]
    /\ UNCHANGED <<hostVars, runVars, fixVars, logVars, queryVars, clock, sugVars>>

\* the host answers the getCommands call of c with the table as it is
CommandListReply(c) ==
    /\ calls[c].pc = "awaitCommands"
    /\ NoStoreQueued
    /\ memo' = [memo EXCEPT !.replies = Append(@, [commands |-> runtimeCommands,
                                                   now |-> calls[c].now,
                                                   order |-> calls[c].order])]
    /\ calls' = [calls EXCEPT ![c].pc = "replied", ![c].commands = runtimeCommands,
                              ![c].fetch = Len(memo.replies) + 1]
    /\ UNCHANGED <<hostVars, runVars, fixVars, logVars, queryVars, clock, sugVars>>

\* the continuation of c: the list is built, stored with the `now` of the call,
\* and returned
StoreCommands(c) ==
    /\ calls[c].pc = "replied"
    /\ memo' = [memo EXCEPT !.commandCache = calls[c].commands,
                            !.lastUpdate = calls[c].now,
                            !.listOf = calls[c].fetch, !.stampOf = calls[c].fetch]
    /\ calls' = [calls EXCEPT ![c].pc = "done", ![c].result = calls[c].commands]
    /\ UNCHANGED <<hostVars, runVars, fixVars, logVars, queryVars, clock, sugVars>>

\* the caller has taken the list
CommandsReturn(c) ==
    /\ calls[c].pc = "done"
    /\ calls' = [calls EXCEPT ![c] = CallIdle]
    /\ UNCHANGED <<hostVars, runVars, fixVars, logVars, queryVars, memo, clock, sugVars>>

\* time passes
Tick(ms) ==
    /\ clock + ms <= CACHE_DURATION * (MaxTicks + 1)
    /\ clock' = clock + ms
    /\ UNCHANGED <<hostVars, runVars, fixVars, logVars, queryVars, memo, calls, sugVars>>

CacheParked == memo = MemoEmpty /\ calls = [c \in Callers |-> CallIdle] /\ clock = 0

(***************************************************************************)
(* A call of suggestAlternativeKeybindings.                                *)
(***************************************************************************)
NotSuggested == [returned |-> FALSE, currentBinding |-> <<>>, list |-> <<>>]

Suggest(currentBinding) ==
    /\ ~suggestions.returned
    /\ suggestions' = [returned |-> TRUE, currentBinding |-> currentBinding,
                       list |-> suggestAlternativeKeybindings(extensions, currentBinding)]
    /\ UNCHANGED <<hostVars, runVars, fixVars, logVars, queryVars, cacheVars,
                   normalized>>

(***************************************************************************)
(* A call of normalizeKeybinding.                                          *)
(***************************************************************************)
NotNormalized(key) == [key |-> key, returned |-> FALSE, result |-> <<>>]

NormalizeKeybinding ==
    /\ ~normalized.returned
    /\ normalized' = [normalized EXCEPT !.returned = TRUE,
                                        !.result = normalizeKeybinding(normalized.key)]
    /\ UNCHANGED <<hostVars, runVars, fixVars, logVars, queryVars, cacheVars,
                   suggestions>>

(***************************************************************************)
(* Specifications.  Each draws its inputs from the pools below and runs    *)
(* the operations it is about; the state of the other operations is        *)
(* parked.                                                                 *)
(***************************************************************************)
\* registries of exactly n extensions, the one at position i drawn from Pool(i)
RECURSIVE RegistriesOf(_, _)
RegistriesOf(Pool(_), n) ==
    IF n = 0 THEN {<<>>}
    ELSE {Append(reg, ext) : reg \in RegistriesOf(Pool, n - 1), ext \in Pool(n)}

\* registries of up to max extensions
Registries(Pool(_), max) == UNION {RegistriesOf(Pool, n) : n \in 0..max}

\* command contributions: none, one, the same id twice, two ids in either order
CommandLists ==
    {<<>>, <<"foo.bar">>, <<"baz.qux">>, <<"foo.bar", "foo.bar">>,
     <<"foo.bar", "baz.qux">>, <<"baz.qux", "foo.bar">>}

CommandPool(i) ==
    {Ext(i, "acme", FALSE, commands, <<>>, <<>>) : commands \in CommandLists}

\* activation events: two language events, the two excluded literals, repeats
ActivationLists ==
    {<<>>, <<"onLanguage:a">>, <<"onLanguage:b">>, <<"onLanguage:a", "onLanguage:a">>,
     <<"onLanguage:a", "onLanguage:b">>, <<"*">>, <<"onStartupFinished">>,
     <<"*", "onLanguage:a">>}

ActivationPool(i) ==
    {Ext(i, "acme", FALSE, <<>>, <<>>, events) : events \in ActivationLists}

\* registration: built-in or not, active or not, declared commands, activation events
RegistrationPool(i) ==
    IF i = 1
    THEN {Ext(i, publisher, isActive, commands, <<>>, events) :
             publisher \in {"acme", "vscode", "microsoft"},
             isActive \in BOOLEAN,
             commands \in {<<>>, <<"foo.bar">>, <<"foo.bar", "foo.bar">>,
                           <<"foo.bar", "baz.qux">>},
             events \in {<<>>, <<OnCommand("foo.bar")>>, <<"*">>,
                         <<"onStartupFinished">>}}
    ELSE {Ext(i, "acme", TRUE, <<"foo.bar">>, <<>>, <<>>),
          Ext(i, "vscode", TRUE, <<"foo.bar">>, <<>>, <<>>),
          Ext(i, "acme", FALSE, <<"baz.qux">>, <<>>, <<"*">>)}

\* extensions with a command, a language activation event and keybindings (an
\* absent variant is the empty sequence): the same chord spelled in capitals,
\* with an alias in the mac variant, in the win variant; another chord; a
\* contribution without any variant
KeybindingPool(i) ==
    LET Keybinding(key, mac, linux, win, command) ==
            [key |-> key, mac |-> mac, linux |-> linux, win |-> win, command |-> command]
        CtrlK   == Keybinding(<<"C", "t", "r", "l", "+", "K">>, <<"c", "m", "d", "+", "k">>,
                              <<>>, <<>>, "foo.bar")
        MacOnly == Keybinding(<<>>, <<"c", "o", "n", "t", "r", "o", "l", " ", "+", "k">>,
                              <<"a", "l", "t", "+", "x">>, <<>>, "baz.qux")
        WinOnly == Keybinding(<<>>, <<>>, <<>>, <<"c", "t", "r", "l", "+", "k">>, "foo.bar")
        AltX    == Keybinding(<<"a", "l", "t", "+", "x">>, <<>>, <<>>, <<>>, "baz.qux")
        NoKey   == Keybinding(<<>>, <<>>, <<>>, <<>>, "foo.bar")
    IN  {Ext(i, "acme", FALSE, <<"foo.bar">>, keybindings, <<"onLanguage:a">>) :
            keybindings \in {<<>>, <<CtrlK>>, <<MacOnly>>, <<WinOnly>>, <<AltX>>, <<NoKey>>,
                             <<CtrlK, MacOnly>>, <<AltX, CtrlK>>, <<NoKey, WinOnly>>}}

\* the parts of the state an operation under check does not use
FixParked ==
    /\ documents = <<>>
    /\ clipboard = ""
    /\ messages = <<>>
    /\ fix = FixIdle
    /\ single = SingleIdle

QueryParked ==
    /\ logDir = [root |-> FALSE, listable |-> FALSE, entries |-> <<>>]
    /\ query = QueryIdle

LogParked ==
    /\ file = [size |-> 0, appends |-> 0]
    /\ reader = ReaderIdle
    /\ parse = [content |-> <<>>, source |-> <<>>, returned |-> FALSE, entries |-> <<>>]

SugParked == suggestions = NotSuggested /\ normalized = NotNormalized(<<>>)

InitDetect ==
    /\ FixParked /\ LogParked /\ QueryParked /\ CacheParked /\ SugParked
    /\ \/ extensions \in Registries(CommandPool, MaxExts) /\ runtimeCommands = {}
       \/ extensions \in Registries(ActivationPool, MaxExts) /\ runtimeCommands = {}
       \/ extensions \in Registries(RegistrationPool, MaxExts) /\ runtimeCommands \in SUBSET CmdIds
       \/ extensions \in Registries(KeybindingPool, MaxExts) /\ runtimeCommands = {}
    /\ RunsIdle

\* one analysis run at a time over a registry that does not change
SpecDetect == InitDetect /\ [][RunStep("refresh")]_vars

\* remediation: manifests with and without missing activation events
FixPool(i) ==
    {Ext(i, "acme", FALSE, <<"foo.bar">>, <<>>, <<>>),
     Ext(i, "acme", FALSE, <<"foo.bar", "baz.qux">>, <<>>, <<OnCommand("foo.bar")>>),
     Ext(i, "acme", FALSE, <<"foo.bar", "foo.bar">>, <<>>, <<>>),
     Ext(i, "acme", FALSE, <<"baz.qux">>, <<>>, <<"onStartupFinished">>),
     Ext(i, "vscode", FALSE, <<"foo.bar">>, <<>>, <<>>)}

\* package.json documents: malformed, without activationEvents, with some
DocumentPool ==
    {Document(FALSE, FALSE, <<>>),
     Document(TRUE, FALSE, <<>>),
     Document(TRUE, TRUE, <<>>),
     Document(TRUE, TRUE, <<OnCommand("foo.bar")>>),
     Document(TRUE, TRUE, <<"onStartupFinished", "*">>)}

InitFix ==
    /\ LogParked /\ QueryParked /\ CacheParked /\ SugParked /\ RunsIdle
    /\ extensions \in Registries(FixPool, MaxFixExts)
    /\ runtimeCommands = {}
    /\ documents \in [{extensions[i].id : i \in 1..Len(extensions)} -> DocumentPool]
    /\ clipboard = ""
    /\ messages = <<>>
    /\ fix = FixIdle
    /\ single = SingleIdle

NextFix ==
    \/ FixAllStep
    \/ \E i \in 1..Len(extensions) : Uninstall(i)

\* batch remediation, run repeatedly, while extensions may be removed
SpecFix == InitFix /\ [][NextFix]_vars

\* single-conflict remediation of any conflict the panel shows
SpecSingle == InitFix /\ [][SingleStep]_vars

\* log file sizes around the limit, and a 10 MB file
FileSizes ==
    {0, 1, MAX_BYTES - 1, MAX_BYTES, MAX_BYTES + 1, 2 * MAX_BYTES, 10 * 1024 * 1024}

InitRead ==
    /\ FixParked /\ QueryParked /\ CacheParked /\ SugParked /\ RunsIdle
    /\ extensions = <<>>
    /\ runtimeCommands = {}
    /\ file \in [size : FileSizes, appends : {0}]
    /\ reader = ReaderIdle
    /\ parse = [content |-> <<>>, source |-> <<>>, returned |-> FALSE, entries |-> <<>>]

NextRead ==
    \/ ReadStep
    \/ \E n \in {1, MAX_BYTES} : AppendToLog(n)

\* readFile, called repeatedly, on a log file that is appended to
SpecRead == InitRead /\ [][NextRead]_vars

\* log lines: entries of two channels, one with brackets inside its groups, a
\* stack-trace line, an empty line, a line of blanks, a bracketed line without
\* message part, an entry line that ends in a carriage return
LogLines ==
    {<<"[", "1", "]", " ", "[", "e", "x", "t", "h", "o", "s", "t", "]", " ", "[", "E",
     "R", "R", "]", " ", "a">>,
     <<"[", "2", "]", " ", "[", "x", "]", " ", "[", "i", "n", "f", "o", "]", " ",
     "b">>,
     <<"[", "3", "]", " ", "]", " ", "[", "x", "]", " ", "[", "w", "]", " ", "[", "i",
     "]", " ", "c">>,
     <<" ", " ", "a", "t", " ", "f">>,
     <<>>,
     <<" ", " ">>,
     <<"[", "4", "]", " ", "[", "x", "]", " ", "[", "i", "]">>,
     <<"[", "5", "]", " ", "[", "x", "]", " ", "[", "i", "]", " ", "d", "\r">>}

\* lines.join('\n')
RECURSIVE JoinLines(_)
JoinLines(lines) ==
    IF Len(lines) = 1 THEN lines[1]
    ELSE JoinLines(SubSeq(lines, 1, Len(lines) - 1)) \o <<Newline>> \o lines[Len(lines)]

LogSource == <<"a", ".", "b">>

InitParse ==
    /\ FixParked /\ QueryParked /\ CacheParked /\ SugParked /\ RunsIdle
    /\ extensions = <<>>
    /\ runtimeCommands = {}
    /\ file = [size |-> 0, appends |-> 0]
    /\ reader = ReaderIdle
    /\ \E lines \in SeqsUpTo(LogLines, MaxLines) \ {<<>>} :
          parse = [content |-> JoinLines(lines), source |-> LogSource,
                   returned |-> FALSE, entries |-> <<>>]

\* parseLogContent applied to a log text
SpecParse == InitParse /\ [][ParseLogContent]_vars

\* the entries of the root log directory, by position: directories of log files
\* (errors with the timestamps 2 and 10 of the exthost channel; a later info entry
\* of that channel and an error of channel x; errors of channel x with the
\* timestamps a and B), with a file that
\* cannot be read, with a file that is no log, a directory that cannot be listed,
\* and a plain file
SourcePool(i) ==
    LET Line(channel, timestamp, level) ==
            <<"[">> \o timestamp \o <<"]", " ", "[">> \o channel \o <<"]", " ", "[">>
            \o level \o <<"]", " ", "m">>
        Err == <<"e", "r", "r">>
        TenTwo == Line(Exthost, <<"2">>, Err) \o <<Newline>>
                  \o Line(Exthost, <<"1", "0">>, Err)
        InfoTwo == Line(Exthost, <<"3">>, <<"i">>) \o <<Newline>>
                   \o Line(<<"x">>, <<"2">>, Err)
        Letters == Line(<<"x">>, <<"a">>, Err) \o <<Newline>>
                   \o Line(<<"x">>, <<"B">>, Err)
        File(log, readable, text) == [log |-> log, readable |-> readable, text |-> text]
        Entry(directory, listable, files) ==
            [name |-> <<(<<"a", "b", "c", "d">>)[i]>>, directory |-> directory,
             listable |-> listable, files |-> files]
    IN  {Entry(TRUE, TRUE, <<File(TRUE, TRUE, TenTwo)>>),
         Entry(TRUE, TRUE, <<File(TRUE, TRUE, InfoTwo), File(TRUE, FALSE, Letters)>>),
         Entry(TRUE, TRUE, <<File(TRUE, FALSE, TenTwo), File(TRUE, TRUE, Letters)>>),
         Entry(TRUE, TRUE, <<File(FALSE, TRUE, TenTwo), File(TRUE, TRUE, InfoTwo)>>),
         Entry(TRUE, FALSE, <<File(TRUE, TRUE, TenTwo)>>),
         Entry(FALSE, FALSE, <<>>)}

\* `limit: number = 50`
DefaultLimit == 50

InitQuery ==
    /\ FixParked /\ LogParked /\ CacheParked /\ SugParked /\ RunsIdle
    /\ extensions = <<>>
    /\ runtimeCommands = {}
    /\ logDir \in [root : BOOLEAN, listable : BOOLEAN,
                   entries : Registries(SourcePool, MaxSources)]
    /\ query = QueryIdle

\* log queries over a session's log directory
QueryStep ==
    \/ \E i \in 1..(MaxSources + 1) : GetLogs(<<(<<"a", "b", "c", "d">>)[i]>>)
    \/ \E limit \in 0..MaxLimit \cup {DefaultLimit} : GetRecentErrors(limit)
    \/ LoggedExtensionsReply
    \/ CollectErrors
    \/ RecentErrorsReturn
    \/ QueryReturn

SpecQuery == InitQuery /\ [][QueryStep]_vars

(***************************************************************************)
(* Overlapping getAllCommands calls of two callers, while an extension      *)
(* activates and registers its command and time passes in steps of just     *)
(* under and just over half the memo's lifetime.                            *)
(***************************************************************************)
TickSizes == {CACHE_DURATION \div 2 - 1, CACHE_DURATION \div 2 + 1}

InitCache ==
    /\ FixParked /\ LogParked /\ QueryParked /\ SugParked /\ RunsIdle
    /\ extensions = <<FirstExt>>
    /\ runtimeCommands = {}
    /\ memo = MemoEmpty
    /\ calls = [c \in Callers |-> CallIdle]
    /\ clock = CACHE_DURATION

CacheStep ==
    \/ \E c \in Callers : GetAllCommands(c)
    \/ \E c \in Callers : CommandListReply(c)
    \/ \E c \in Callers : StoreCommands(c)
    \/ \E c \in Callers : CommandsReturn(c)
    \/ \E ms \in TickSizes : Tick(ms)
    \/ \E i \in 1..Len(extensions) :
          \E registered \in SUBSET Range(extensions[i].commands) : Activate(i, registered)

SpecCache == InitCache /\ [][CacheStep]_vars

\* a candidate as a manifest may spell it: as it is, or with modifier aliases,
\* capitals and blanks
Spelled(binding, style) ==
    IF style = "plain" THEN binding
    ELSE LET Capital(ch) ==
                 IF \E i \in 1..Len(LowerLetters) : LowerLetters[i] = ch
                 THEN UpperLetters[CHOOSE i \in 1..Len(LowerLetters) : LowerLetters[i] = ch]
                 ELSE ch
             aliased == ReplaceAll(ReplaceAll(binding, CtrlPlus, ControlPlus),
                                   AltPlus, OptionPlus)
         IN  ReplaceAll([i \in 1..Len(aliased) |-> Capital(aliased[i])], Plus,
                        <<" ", "+", " ">>)

\* the keybinding contributions that use the candidates numbered in `used`, and
\* one binding that is no candidate
UsingCandidates(used, style) ==
    LET numbers == SelectSeq([n \in 1..Len(Candidates) |-> n], LAMBDA n : n \in used)
    IN  [k \in 1..Len(numbers) |->
            [key |-> IF style = "mac" THEN <<>> ELSE Spelled(Candidates[numbers[k]], style),
             mac |-> IF style = "mac" THEN Candidates[numbers[k]] ELSE <<>>,
             linux |-> <<>>, win |-> <<>>, command |-> "foo.bar"]]
        \o <<[key |-> <<"M", "e", "t", "a", "+", "K">>, mac |-> <<>>, linux |-> <<>>,
              win |-> <<>>, command |-> "baz.qux"]>>

\* used-sets: the first k candidates; all candidates but some of five; all but
\* every sixteenth; every other one
UsedSets ==
    {1..k : k \in {0, 1, 9, 10, 48, 181, 182, 183, 191}}
    \cup {(1..Len(Candidates)) \ free : free \in SUBSET {1, 2, 48, 49, 192}}
    \cup {{n \in 1..Len(Candidates) : n % 16 # 0}, {n \in 1..Len(Candidates) : n % 2 = 0}}

InitSuggest ==
    /\ FixParked /\ LogParked /\ QueryParked /\ CacheParked /\ RunsIdle
    /\ \E used \in UsedSets, style \in {"plain", "alias", "mac"} :
          extensions = <<Ext(1, "acme", FALSE, <<>>, UsingCandidates(used, style), <<>>)>>
    /\ runtimeCommands = {}
    /\ suggestions = NotSuggested
    /\ normalized = NotNormalized(<<>>)

NextSuggest ==
    \E currentBinding \in {Candidates[1], <<"M", "e", "t", "a", "+", "K">>} :
        Suggest(currentBinding)

\* suggestAlternativeKeybindings applied to a registry
SpecSuggest == InitSuggest /\ [][NextSuggest]_vars

\* the parts key strings are made of: modifiers and aliases in capitals, with and
\* without their "+", pieces of an alias, white space, a key
KeyParts ==
    {<<"C", "o", "n", "t", "r", "o", "l", "+">>, <<"S", "h", "i", "f", "t", "+">>,
     <<"c", "o", "n">>, <<"t", "r", "o", "l", "+">>, <<"M", "e", "t", "a", "+">>,
     <<"O", "p", "t", "i", "o", "n">>, <<"c", "o", "m", "m", "a", "n", "d", "+">>,
     <<" ">>, <<"K">>, <<"+">>}

\* the parts, one after the other
RECURSIVE Concatenated(_)
Concatenated(parts) ==
    IF parts = <<>> THEN <<>> ELSE Head(parts) \o Concatenated(Tail(parts))

InitNormalize ==
    /\ FixParked /\ LogParked /\ QueryParked /\ CacheParked /\ RunsIdle
    /\ extensions = <<>>
    /\ runtimeCommands = {}
    /\ suggestions = NotSuggested
    /\ \E parts \in SeqsUpTo(KeyParts, MaxKeyParts) :
          normalized = NotNormalized(Concatenated(parts))

\* normalizeKeybinding applied to a key string
SpecNormalize == InitNormalize /\ [][NormalizeKeybinding]_vars

\* one entry line whose level token is put together from markers in either case,
\* a marker cut short, and a token without marker
InitLevel ==
    /\ FixParked /\ QueryParked /\ CacheParked /\ SugParked /\ RunsIdle
    /\ extensions = <<>>
    /\ runtimeCommands = {}
    /\ file = [size |-> 0, appends |-> 0]
    /\ reader = ReaderIdle
    /\ \E parts \in SeqsUpTo({<<"E", "R", "R">>, <<"w", "a", "r", "n">>,
                               <<"D", "e", "b", "u", "g">>, <<"t", "r", "a", "c", "e">>,
                               <<"e", "r">>, <<"i", "n", "f", "o">>}, MaxLevelParts) :
          parse = [content |-> <<"[", "1", "]", " ", "[", "x", "]", " ", "[">>
                               \o Concatenated(parts) \o <<"]", " ", "m">>,
                   source |-> LogSource, returned |-> FALSE, entries |-> <<>>]

\* parseLogContent applied to entry lines of any level token
SpecLevel == InitLevel /\ [][ParseLogContent]_vars

Init ==
    /\ FixParked /\ LogParked /\ QueryParked /\ CacheParked /\ SugParked
    /\ extensions = <<FirstExt>>
    /\ runtimeCommands = {}
    /\ RunsIdle

Next ==
    \/ \E r \in Runs : RunStep(r)
    \/ HostStep

\* overlapping analysis runs over a registry the host changes
Spec == Init /\ [][Next]_vars

(***************************************************************************)
(* Properties of the detectors, stated on the list a finished run returns. *)
(***************************************************************************)
Count(s, P(_)) == Len(SelectSeq(s, P))

\* the positions of the registry whose extension satisfies P, in registry order
Positions(exts, P(_)) == SelectSeq([i \in 1..Len(exts) |-> i], LAMBDA i : P(exts[i]))

Occurrences(s, x) == Count(s, LAMBDA y : y = x)

Finished(r) == pc[r] = "done"

\* the components contributing command id c
CommandContributors(exts, c) == Positions(exts, LAMBDA ext : Includes(ext.commands, c))

IsCommandConflict(k, c) == k.type = "command" /\ k.id = c

\* C1: Command Collision emits exactly one error 'command' conflict per command id
\* that more than one component contributes and none for any other id; its sources
\* are the contributing components in manifest order, one entry per component.
C1_CommandCollision ==
    \A r \in Runs : Finished(r) /\ seen[r][1] = extensions =>
        \A c \in CmdIds :
            LET contributors == CommandContributors(extensions, c)
                emitted == SelectSeq(conflicts[r], LAMBDA k : IsCommandConflict(k, c))
            IN  /\ Len(emitted) = (IF Len(contributors) > 1 THEN 1 ELSE 0)
                /\ \A n \in 1..Len(emitted) :
                      /\ emitted[n].severity = "error"
                      /\ emitted[n].sources =
                            MapSeq(LAMBDA i : SourceName(extensions[i]), contributors)

\* the components declaring activation event e
ActivationDeclarers(exts, e) ==
    Positions(exts, LAMBDA ext : Includes(ext.activationEvents, e))

ActivationEvents(exts) == UNION {Range(exts[i].activationEvents) : i \in 1..Len(exts)}

IsOverlapConflict(k, e) ==
    k.description = "activation-multiple" /\ k.type = "activation" /\ k.id = e

\* C2: Activation Overlap emits a warning 'activation' conflict with id E if and only
\* if strictly more than 2 distinct components declare E, and never one whose id is
\* `*` or `onStartupFinished`.
C2_ActivationOverlap ==
    \A r \in Runs : Finished(r) /\ seen[r][3] = extensions =>
        \A e \in ActivationEvents(extensions) \cup {"*", "onStartupFinished"} :
            LET emitted == \E n \in 1..Len(conflicts[r]) :
                               /\ IsOverlapConflict(conflicts[r][n], e)
                               /\ conflicts[r][n].severity = "warning"
            IN  /\ emitted <=> (/\ Len(ActivationDeclarers(extensions, e)) > 2
                                /\ e \notin {"*", "onStartupFinished"})

\* the part of C2 that the code keeps: the two excluded literals are never reported
\* as an overlap, and an event fewer than 3 declarations name is not reported
C2_ExcludedLiterals ==
    \A r \in Runs : Finished(r) =>
        \A n \in 1..Len(conflicts[r]) :
            conflicts[r][n].description = "activation-multiple" =>
                conflicts[r][n].id \notin {"*", "onStartupFinished"}

IsGhostConflict(k, ext, c) ==
    /\ k.description = "ghost-command"
    /\ k.type = "registration"
    /\ k.severity = "error"
    /\ k.id = c
    /\ k.extensionId = ext.id

GhostCase(ext, c, runtime) ==
    ~IsBuiltIn(ext.id) /\ ext.isActive /\ Includes(ext.commands, c) /\ c \notin runtime

\* C3 as stated: an active non-built-in component declaring a command id absent from
\* the Runtime Command Table yields exactly one error 'registration' conflict with
\* that id; with isActive = false it yields none, whatever the table contains.
C3_GhostExactlyOne ==
    \A r \in Runs : Finished(r) /\ seen[r][4] = extensions =>
        \A i \in 1..Len(extensions) : \A c \in CmdIds :
            LET ext == extensions[i]
                ghosts == Count(conflicts[r], LAMBDA k : IsGhostConflict(k, ext, c))
            IN  /\ GhostCase(ext, c, fetched[r]) => ghosts = 1
                /\ ~ext.isActive => ghosts = 0

\* C3 amended: one error 'registration' conflict with that id for each entry of the
\* component's commands list that declares the id (exactly one when it is declared
\* once); none when the component is not active, whatever the table contains.
C3_GhostPerDeclaration ==
    \A r \in Runs : Finished(r) /\ seen[r][4] = extensions =>
        \A i \in 1..Len(extensions) : \A c \in CmdIds :
            LET ext == extensions[i]
                ghosts == Count(conflicts[r], LAMBDA k : IsGhostConflict(k, ext, c))
            IN  /\ GhostCase(ext, c, fetched[r]) => ghosts = Occurrences(ext.commands, c)
                /\ ~ext.isActive => ghosts = 0

\* a finished run reported a ghost command of an active component, and the registry
\* also holds an inactive component declaring a command the table lacks
C3_Witness ==
    \E r \in Runs :
        /\ Finished(r) /\ seen[r][4] = extensions
        /\ \E i \in 1..Len(extensions) : \E c \in CmdIds :
              /\ GhostCase(extensions[i], c, fetched[r])
              /\ Occurrences(extensions[i].commands, c) = 1
              /\ Count(conflicts[r], LAMBDA k : IsGhostConflict(k, extensions[i], c)) = 1
        /\ \E j \in 1..Len(extensions) : \E c \in CmdIds :
              /\ ~extensions[j].isActive /\ ~IsBuiltIn(extensions[j].id)
              /\ Includes(extensions[j].commands, c) /\ c \notin fetched[r]

(***************************************************************************)
(* Properties of a whole analysis run.                                     *)
(***************************************************************************)
\* the full analysis of one registry snapshot and one command list
AnalysisOf(exts, runtime) ==
    Merged(detectCommandConflicts(exts), detectKeybindingConflicts(exts),
           detectActivationConflicts(exts), detectRegistrationMismatches(runtime, exts))

\* C4: within one run all four detectors evaluate the same snapshot of the registry:
\* the list a run returns is the analysis of one of the registries that existed
\* during the run, also when the registry changed while the run was suspended.
C4_OneSnapshot ==
    \A r \in Runs : Finished(r) =>
        \E n \in 1..Len(seen[r]) : conflicts[r] = AnalysisOf(seen[r][n], fetched[r])

\* the registry and the command table were the same whenever run r read them
\* and are the same now
UnchangedDuring(r) ==
    /\ \A n \in 1..Len(seen[r]) : seen[r][n] = extensions
    /\ fetched[r] = runtimeCommands

\* C5: overlapping runs do not interfere: over an unchanged registry and command
\* table each run returns exactly the list it would return if run alone.
C5_RunsIndependent ==
    \A r \in Runs : Finished(r) /\ UnchangedDuring(r) =>
        conflicts[r] = AnalysisOf(extensions, runtimeCommands)

\* two runs that overlapped have both finished over an unchanged registry, and the
\* list they return is not empty
C5_Witness ==
    /\ \A r \in Runs : Finished(r) /\ UnchangedDuring(r) /\ overlapped[r]
    /\ \A r \in Runs : conflicts[r] # <<>>

(***************************************************************************)
(* Properties of remediation.                                              *)
(***************************************************************************)
\* C6: batch remediation is idempotent: once the apply call of a batch run has
\* succeeded, a later batch run (no command was added in between) adds no
\* replacement edit to its apply call.
C6_BatchIdempotent ==
    fix.applied /\ fix.pc \in {"groups", "awaitApply", "done"} => fix.edit = <<>>

\* a second batch run still finds missing-activation conflicts (the registry keeps
\* the manifests it loaded), after a first run whose edits were applied, and
\* reaches its apply call with no edit
C6_Witness ==
    /\ fix.applied /\ fix.edited
    /\ fix.pc = "awaitApply"
    /\ fix.groups # <<>>
    /\ fix.edit = <<>>

C8_TailBound ==
    reader.pc = "done" =>
        /\ reader.result.bytes <= MAX_BYTES
        /\ reader.result # Empty =>
              IF reader.size <= MAX_BYTES
              THEN /\ reader.result.marker = FALSE /\ reader.result.from = 0
                   /\ reader.size <= reader.result.bytes
                   /\ reader.result.bytes <= file.size
              ELSE reader.result = Returned(TRUE, reader.size - MAX_BYTES, MAX_BYTES)

\* the lines of a text: the pieces between its newlines
LinesOf(text) ==
    LET breaks == <<0>> \o SelectSeq([i \in 1..Len(text) |-> i],
                                     LAMBDA i : text[i] = Newline)
                       \o <<Len(text) + 1>>
    IN  [k \in 1..(Len(breaks) - 1) |-> SubSeq(text, breaks[k] + 1, breaks[k + 1] - 1)]

\* the line has the form [timestamp] [channel] [levelToken] message
Matching(line) == Fits(line) # {}

\* the message and the lines after it, newline-joined
RECURSIVE Joined(_, _)
Joined(message, more) ==
    IF more = <<>> THEN message
    ELSE Joined(message \o <<Newline>> \o Head(more), Tail(more))

\* what the claim says of the entries of a text, Appended(line) telling which
\* non-matching lines are appended
EntriesAsStated(Appended(_)) ==
    LET lines == LinesOf(parse.content)
        starts == SelectSeq([n \in 1..Len(lines) |-> n], LAMBDA n : Matching(lines[n]))
        Until(k) == IF k < Len(starts) THEN starts[k + 1] ELSE Len(lines) + 1
        Between(k) == SelectSeq([n \in 1..Len(lines) |-> n],
                                LAMBDA n : /\ starts[k] < n /\ n < Until(k)
                                           /\ Appended(lines[n]))
    IN  /\ Len(parse.entries) = Len(starts)
        /\ \A k \in 1..Len(starts) :
              parse.entries[k].message =
                  Joined(Match(lines[starts[k]])[4],
                         [j \in 1..Len(Between(k)) |-> lines[Between(k)[j]]])

\* C9: the number of entries equals the number of matching lines; every
\* non-matching, non-empty line is appended, newline-joined and in order, to the
\* message of the most recent preceding entry; a non-matching line with no
\* preceding entry is dropped.
C9_EveryNonEmptyLineAppended ==
    parse.returned => EntriesAsStated(LAMBDA line : line # <<>>)

\* C9 as amended: the appended lines are the non-matching lines that hold a
\* character other than white space.
C9_EveryNonBlankLineAppended ==
    parse.returned => EntriesAsStated(LAMBDA line : \E i \in 1..Len(line) :
                                                        line[i] \notin Whitespace)

\* a text of four lines has been parsed: a stack-trace line before any entry, an
\* entry, a line of blanks, a stack-trace line; the one entry holds the last line
C9_Witness ==
    /\ parse.returned
    /\ LET lines == LinesOf(parse.content)
       IN  /\ Len(lines) = 4
           /\ lines[1] = <<" ", " ", "a", "t", " ", "f">>
           /\ Matching(lines[2])
           /\ lines[3] = <<" ", " ">>
           /\ lines[4] = lines[1]
           /\ Len(parse.entries) = 1
           /\ parse.entries[1].message = Match(lines[2])[4] \o <<Newline>> \o lines[4]

(***************************************************************************)
(* Properties of the keybinding suggestions.                               *)
(***************************************************************************)
\* the candidates that are not in the set `used`, in enumeration order
Unused(used) == SelectSeq(Candidates, LAMBDA c : c \notin used)

\* C10: suggest(currentBinding) returns exactly the first min(10, u) candidates, in
\* enumeration order, that are not in the normalized used-set (u of the 192 are
\* unused): never a used binding, the empty list when all are used, the same list
\* whatever currentBinding is.
C10_FirstUnusedCandidates ==
    suggestions.returned =>
        LET used == UsedBindings(extensions)
            unused == Unused(used)
        IN  /\ Len(Candidates) = 192
            /\ suggestions.list =
                  SubSeq(unused, 1, IF Len(unused) < 10 THEN Len(unused) ELSE 10)
            /\ \A n \in 1..Len(suggestions.list) : suggestions.list[n] \notin used

\* the manifest spells its bindings with aliases, capitals and blanks, uses all but
\* a few candidates, the first one among them; fewer than 10 are suggested
C10_Witness ==
    /\ suggestions.returned
    /\ \E k \in 1..Len(extensions[1].keybindings) :
          extensions[1].keybindings[k].key
              = <<"C", "O", "N", "T", "R", "O", "L", " ", "+", " ", "S", "H", "I", "F",
                  "T", " ", "+", " ", "F", "1">>
    /\ Len(suggestions.list) \in 1..9
    /\ suggestions.list[1] # Candidates[1]

(***************************************************************************)
(* Properties of keybinding normalization.                                 *)
(***************************************************************************)
\* "Control+Shift+ K"
ControlShiftK ==
    <<"C", "o", "n", "t", "r", "o", "l", "+", "S", "h", "i", "f", "t", "+", " ", "K">>

\* C11: keybinding normalization is idempotent: normalize(normalize(x)) =
\* normalize(x) for every key string x; and normalize("Control+Shift+ K") =
\* "ctrl+shift+k".
C11_NormalizeIdempotent ==
    normalized.returned =>
        /\ normalizeKeybinding(normalized.result) = normalized.result
        /\ normalized.key = ControlShiftK =>
              normalized.result
                  = <<"c", "t", "r", "l", "+", "s", "h", "i", "f", "t", "+", "k">>

\* a key string with white space inside an alias and an alias around an alias has
\* been normalized: "con" "Control+" " " "trol+" gives "conctrl+trol+"
C11_Witness ==
    /\ normalized.returned
    /\ normalized.key
          = <<"c", "o", "n", "C", "o", "n", "t", "r", "o", "l", "+", " ", "t", "r", "o",
              "l", "+">>
    /\ normalized.result
          = <<"c", "o", "n", "c", "t", "r", "l", "+", "t", "r", "o", "l", "+">>

\* the modifier aliases, without and with the "+" that follows a modifier
Aliases ==
    {<<"c", "o", "n", "t", "r", "o", "l">>, <<"o", "p", "t", "i", "o", "n">>,
     <<"c", "o", "m", "m", "a", "n", "d">>, <<"m", "e", "t", "a">>}

\* lower case, no white space, and no alias followed by `after`
Canonical(str, after) ==
    /\ \A i \in 1..Len(str) : str[i] \notin Range(UpperLetters) \cup Whitespace
    /\ \A alias \in Aliases : ~IncludesText(str, alias \o after)

\* C12: every normalized keybinding string contains no upper-case letter, no
\* white space and none of the aliases control, option, command, meta, wherever
\* the alias stands in the key string.
C12_NoAliasAnywhere == normalized.returned => Canonical(normalized.result, <<>>)

\* C12 as amended: every normalized keybinding string contains no upper-case
\* letter, no white space and no alias that is followed by "+".
C12_NoAliasBeforePlus == normalized.returned => Canonical(normalized.result, Plus)

\* "Meta+ Option" has been normalized to "cmd+option": the alias in modifier
\* position is collapsed, the one in key position stays
C12_Witness ==
    /\ normalized.returned
    /\ normalized.key = <<"M", "e", "t", "a", "+", " ", "O", "p", "t", "i", "o", "n">>
    /\ normalized.result = <<"c", "m", "d", "+", "o", "p", "t", "i", "o", "n">>

(***************************************************************************)
(* Properties of the merge and of the keybinding and registration rules.   *)
(***************************************************************************)
\* C13: the full analysis returns the four detectors' outputs concatenated in the
\* order command collision, keybinding collision, activation overlap,
\* registration mismatch; nothing is removed or merged: the length is the sum of
\* the four lengths.
C13_DetectorOrder ==
    \A r \in Runs : Finished(r) /\ UnchangedDuring(r) =>
        LET command      == detectCommandConflicts(extensions)
            keybinding   == detectKeybindingConflicts(extensions)
            activation   == detectActivationConflicts(extensions)
            registration == detectRegistrationMismatches(runtimeCommands, extensions)
        IN  /\ Len(conflicts[r])
                  = Len(command) + Len(keybinding) + Len(activation) + Len(registration)
            /\ SubSeq(conflicts[r], 1, Len(command)) = command
            /\ SubSeq(conflicts[r], Len(command) + 1, Len(command) + Len(keybinding))
                  = keybinding
            /\ SubSeq(conflicts[r], Len(command) + Len(keybinding) + 1,
                      Len(command) + Len(keybinding) + Len(activation)) = activation
            /\ SubSeq(conflicts[r], Len(command) + Len(keybinding) + Len(activation) + 1,
                      Len(conflicts[r])) = registration

\* a run has returned conflicts of all four types, in the order of the detectors,
\* and the command id foo.bar is reported by the command rule and again by the
\* registration rule
C13_Witness ==
    /\ Finished("refresh")
    /\ LET found == conflicts["refresh"]
           Types == [n \in 1..Len(found) |-> found[n].type]
       IN  /\ Len(found) >= 4
           /\ Types[1] = "command" /\ found[1].id = "foo.bar"
           /\ Includes(Types, "keybinding") /\ Includes(Types, "activation")
           /\ \E n \in 2..Len(found) :
                 found[n].type = "registration" /\ found[n].id = "foo.bar"

\* the keybinding contributions of the registry that have a representative key,
\* in manifest order: <<normalized key, "<owner> (<command>)">>
KeyedContributions(exts) ==
    LET Defined(kb) == SelectSeq(<<kb.key, kb.mac, kb.linux, kb.win>>,
                                 LAMBDA variant : variant # <<>>)
        OfExt(ext) ==
            MapSeq(LAMBDA kb : <<normalizeKeybinding(Defined(kb)[1]),
                                 SourceName(ext) \o " (" \o kb.command \o ")">>,
                   SelectSeq(ext.keybindings, LAMBDA kb : Defined(kb) # <<>>))
    IN  FlatMap(OfExt, exts)

\* C19: Keybinding Collision emits exactly one warning 'keybinding' conflict per
\* normalized representative key shared by more than one contribution, with id
\* the normalized key and one source "<owner> (<command>)" per contribution, in
\* order; a key with a single contribution emits nothing; a contribution without
\* any variant is ignored.
C19_KeybindingCollision ==
    \A r \in Runs : Finished(r) /\ UnchangedDuring(r) =>
        LET contributions == KeyedContributions(extensions)
            emitted == SelectSeq(conflicts[r], LAMBDA k : k.type = "keybinding")
            SharedBy(key) == SelectSeq(contributions, LAMBDA c : c[1] = key)
        IN  /\ \A n \in 1..Len(emitted) :
                  /\ emitted[n].severity = "warning"
                  /\ Len(SharedBy(emitted[n].id)) > 1
                  /\ emitted[n].sources
                        = [j \in 1..Len(SharedBy(emitted[n].id)) |->
                              SharedBy(emitted[n].id)[j][2]]
                  /\ \A o \in 1..Len(emitted) : emitted[o].id = emitted[n].id => o = n
            /\ \A c \in 1..Len(contributions) :
                  Len(SharedBy(contributions[c][1])) > 1 =>
                      \E n \in 1..Len(emitted) : emitted[n].id = contributions[c][1]

\* two extensions bind the same chord, one in its mac variant with an alias and a
\* blank, one in its win variant after a contribution without any variant; the
\* one conflict names ctrl+k and both contributions
C19_Witness ==
    /\ Finished("refresh")
    /\ Len(extensions) = 2
    /\ Len(extensions[1].keybindings) = 1
    /\ extensions[1].keybindings[1].key = <<>>
    /\ extensions[1].keybindings[1].mac # <<>>
    /\ Len(extensions[2].keybindings) = 2
    /\ \E n \in 1..Len(conflicts["refresh"]) :
          /\ conflicts["refresh"][n].type = "keybinding"
          /\ conflicts["refresh"][n].id = <<"c", "t", "r", "l", "+", "k">>
          /\ conflicts["refresh"][n].sources = <<"Display 1 (baz.qux)", "ext2 (foo.bar)">>

\* C20: rule d-ii: for every command declared by a non-built-in component, a
\* warning 'registration' conflict with that command id and the component's id is
\* emitted if and only if the component's activationEvents contains neither
\* onCommand:<id> nor * nor onStartupFinished, whether or not the component is
\* active and whatever the Runtime Command Table holds.
C20_MissingActivation ==
    \A r \in Runs : Finished(r) /\ UnchangedDuring(r) =>
        \A i \in 1..Len(extensions) : \A c \in Range(extensions[i].commands) :
            LET ext == extensions[i]
                Covers(event) == event \in {OnCommand(c), "*", "onStartupFinished"}
            IN  ~IsBuiltIn(ext.id) =>
                   ((\E n \in 1..Len(conflicts[r]) :
                        /\ conflicts[r][n].type = "registration"
                        /\ conflicts[r][n].severity = "warning"
                        /\ conflicts[r][n].id = c
                        /\ conflicts[r][n].extensionId = ext.id)
                    <=> ~\E e \in 1..Len(ext.activationEvents) :
                            Covers(ext.activationEvents[e]))

\* an active component whose two commands are both in the Runtime Command Table
\* declares onCommand: for one of them only: the other one is reported, alone
C20_Witness ==
    /\ Finished("refresh")
    /\ Len(extensions) = 1
    /\ extensions[1].isActive /\ ~IsBuiltIn(extensions[1].id)
    /\ extensions[1].commands = <<"foo.bar", "baz.qux">>
    /\ extensions[1].activationEvents = <<OnCommand("foo.bar")>>
    /\ runtimeCommands = CmdIds
    /\ Len(conflicts["refresh"]) = 1
    /\ conflicts["refresh"][1].id = "baz.qux"
    /\ conflicts["refresh"][1].severity = "warning"

\* C14: in a batch run, a group whose manifest cannot be loaded or parsed is
\* reported in an error message carrying that extension's id and adds no edit; every
\* other group is still processed, is not reported, and its edit is in the
\* WorkspaceEdit handed to applyEdit.
C14_FailureIsolated ==
    fix.pc = "awaitApply" =>
        \A g \in 1..Len(fix.groups) :
            LET extId == fix.groups[g][1]
                reported == \E m \in 1..Len(messages) :
                               messages[m].kind = "error" /\ messages[m].arg = extId
                edits == SelectSeq(fix.edit, LAMBDA e : e.uri = extId)
            IN  Installed(extId) =>
                    IF documents[extId].parses
                    THEN /\ ~reported
                         /\ edits = GroupEdit(extId, fix.groups[g][2], documents[extId])
                    ELSE reported /\ edits = <<>>

\* the apply call of a run of two groups: the first group's manifest did not parse
\* and was reported, the second group's edit is in the WorkspaceEdit
C14_Witness ==
    /\ fix.pc = "awaitApply"
    /\ Len(fix.groups) = 2
    /\ Installed(fix.groups[1][1]) /\ ~documents[fix.groups[1][1]].parses
    /\ Len(messages) = 1 /\ messages[1].kind = "error"
    /\ messages[1].arg = fix.groups[1][1]
    /\ Len(fix.edit) = 1 /\ fix.edit[1].uri = fix.groups[2][1]

\* C15: a batch run that found missing-activation conflicts calls applyEdit exactly
\* once, after the loop over the groups has ended and with the edits of all groups;
\* it returns the boolean applyEdit answered, and after the answer it neither calls
\* applyEdit again nor writes the documents again.
C15_OneApplyCall ==
    /\ [](/\ fix.pc = "groups" => fix.calls = 0
          /\ fix.pc = "awaitApply" => fix.calls = 1 /\ fix.next > Len(fix.groups)
          /\ fix.pc = "done" /\ fix.groups # <<>> =>
                 fix.calls = 1 /\ fix.result = fix.answer)
    /\ [][/\ fix'.calls > fix.calls =>
                 /\ fix.pc = "groups" /\ fix.next > Len(fix.groups)
                 /\ fix'.edit = fix.edit
          /\ fix.pc = "awaitApply" /\ fix'.pc # "awaitApply" =>
                 /\ fix'.pc = "done"
                 /\ documents' = IF fix'.answer THEN Applied(documents, fix.edit)
                                  ELSE documents
          /\ fix.pc = "done" =>
                 documents' = documents /\ fix'.pc \in {"done", "idle"}]_vars

\* a run with edits whose apply call was refused has returned false: the documents
\* are as they were, and the call was made once
C15_Witness ==
    /\ fix.pc = "done"
    /\ fix.groups # <<>> /\ fix.edit # <<>>
    /\ fix.calls = 1 /\ ~fix.answer /\ ~fix.result
    /\ \A n \in 1..Len(fix.edit) : documents[fix.edit[n].uri] # fix.edit[n].text

\* C16: a remediation operation whose collaborator call failed returns false: the
\* single-conflict path when clipboard.writeText failed, the batch path when
\* applyEdit answered false.
C16_IoFailureReturnsFalse ==
    /\ single.pc = "done" /\ single.failed => ~single.result
    /\ fix.pc = "done" /\ fix.calls > 0 /\ ~fix.answer => ~fix.result

\* the log directory without the files that cannot be read
Pruned(dir) ==
    [dir EXCEPT !.entries =
        [n \in 1..Len(dir.entries) |->
            [dir.entries[n] EXCEPT !.files = SelectSeq(@, LAMBDA f : f.readable)]]]

CodeUnitOrder == <<"0", "1", "2", "3", "B", "a">>

\* the error entries of all directories of the root log directory
AllErrors(dir) ==
    FlatMap(LAMBDA id : SelectSeq(getLogs(dir, id), LAMBDA l : l.level = "error"),
            getLoggedExtensions(dir))

\* result holds only error entries of the log directory, min(limit, n) of its n
\* error entries, in descending order of timestamp under the given order of
\* characters, and no entry left out has a greater timestamp than one returned
RecentErrorsUnder(order, result, limit) ==
    LET all == AllErrors(logDir)
        n   == Len(all)
        Times(s, e) == Len(SelectSeq(s, LAMBDA x : x = e))
    IN  /\ \A i \in 1..Len(result) :
              /\ result[i].level = "error"
              /\ Times(result, result[i]) <= Times(all, result[i])
        /\ Len(result) = IF limit < n THEN limit ELSE n
        /\ \A i, j \in 1..Len(result) :
              i < j => Compare(order, result[i].timestamp, result[j].timestamp) >= 0
        /\ \A k \in 1..n : \A i \in 1..Len(result) :
              Times(result, all[k]) < Times(all, all[k]) =>
                  Compare(order, result[i].timestamp, all[k].timestamp) >= 0

\* C18: getRecentErrors(limit) returns only error entries, of all directories of
\* the root log directory, in descending order of timestamp under lexicographic
\* comparison, and exactly the min(limit, n) entries of greatest timestamp.
C18_RecentErrors ==
    query.pc = "done" /\ query.op = "getRecentErrors" =>
        RecentErrorsUnder(CodeUnitOrder, query.result, query.limit)

\* what getRecentErrors returns is so ordered, and so chosen, under the collation
\* of localeCompare
RecentErrorsCollated ==
    query.pc = "done" /\ query.op = "getRecentErrors" =>
        RecentErrorsUnder(CollationOrder, query.result, query.limit)

\* C22: every extension that is not built in and whose activationEvents include
\* "*" yields exactly one warning 'activation' conflict with id "*" that names it;
\* an extension whose id starts with vscode. or microsoft. yields no ghost-command,
\* no missing-activation and no eager-activation conflict.
C22_EagerAndBuiltIn ==
    \A r \in Runs : Finished(r) /\ UnchangedDuring(r) =>
        \A i \in 1..Len(extensions) :
            LET ext == extensions[i]
                eager == SelectSeq(conflicts[r], LAMBDA k :
                             /\ k.type = "activation" /\ k.id = "*"
                             /\ k.severity = "warning"
                             /\ k.sources = <<SourceName(ext)>>)
                owned == SelectSeq(conflicts[r], LAMBDA k :
                             k.type = "registration" /\ k.extensionId = ext.id)
            IN  /\ ~IsBuiltIn(ext.id) /\ Includes(ext.activationEvents, "*") =>
                       Len(eager) = 1
                /\ IsBuiltIn(ext.id) => eager = <<>> /\ owned = <<>>

\* a run over a built-in extension with "*" and an undeclared activation, followed
\* by an extension with "*" that is not built in: the one conflict names the latter
C22_Witness ==
    /\ Finished("refresh") /\ UnchangedDuring("refresh")
    /\ Len(extensions) = 2
    /\ IsBuiltIn(extensions[1].id)
    /\ extensions[1].isActive /\ extensions[1].commands # <<>>
    /\ Includes(extensions[1].activationEvents, "*")
    /\ ~IsBuiltIn(extensions[2].id) /\ Includes(extensions[2].activationEvents, "*")
    /\ Len(conflicts["refresh"]) = 1
    /\ conflicts["refresh"][1].id = "*"
    /\ conflicts["refresh"][1].sources = <<SourceName(extensions[2])>>

\* C23: remediation acts on missing-activation conflicts only: the single-conflict
\* path, given a conflict of another kind, writes neither the clipboard nor a
\* document, and every event the batch path adds to a manifest is the onCommand
\* event of a command of that extension which no activation event covers.
C23_OnlyMissingActivation ==
    /\ [][single.pc = "awaitSelection" /\ ~IsMissingEvent(single.conflict) =>
             clipboard' = clipboard /\ documents' = documents]_vars
    /\ [](fix.pc = "awaitApply" =>
             \A n \in 1..Len(fix.edit) :
                 LET id     == fix.edit[n].uri
                     before == documents[id].activationEvents
                     after  == fix.edit[n].text.activationEvents
                 IN  \A e \in Range(after) \ Range(before) :
                         \E c \in UNION {Range(fix.groups[g][2]) : g \in 1..Len(fix.groups)} :
                             e = OnCommand(c))

\* C24: for a group whose manifest parses, the replacement document holds every
\* event of the original collection as often as the original does, and once more
\* onCommand:<id> for each grouped id that the original lacks, and nothing else; it
\* is sorted; a group for which nothing is to be added has no edit.
C24_ReplacementDocument ==
    fix.pc = "awaitApply" =>
        \A g \in 1..Len(fix.groups) :
            LET extId    == fix.groups[g][1]
                doc      == documents[extId]
                original == IF doc.hasEvents THEN doc.activationEvents ELSE <<>>
                needed   == {OnCommand(c) : c \in Range(fix.groups[g][2])} \ Range(original)
                edits    == SelectSeq(fix.edit, LAMBDA e : e.uri = extId)
            IN  Installed(extId) /\ doc.parses =>
                    IF needed = {} THEN edits = <<>>
                    ELSE /\ Len(edits) = 1
                         /\ LET after == edits[1].text.activationEvents
                            IN  /\ edits[1].text.parses /\ edits[1].text.hasEvents
                                /\ \A e \in Range(original) \cup Range(after) \cup needed :
                                      Occurrences(after, e) =
                                          Occurrences(original, e)
                                          + (IF e \in needed THEN 1 ELSE 0)
                                /\ \A i \in 1..(Len(after) - 1) :
                                      EventRank(after[i]) <= EventRank(after[i + 1])

\* the apply call of a run whose group names foo.bar twice, for a manifest whose
\* events were not sorted: the event is added once and the collection is sorted
C24_Witness ==
    /\ fix.pc = "awaitApply"
    /\ Len(fix.groups) = 1 /\ fix.groups[1][2] = <<"foo.bar", "foo.bar">>
    /\ documents[fix.groups[1][1]].activationEvents = <<"onStartupFinished", "*">>
    /\ Len(fix.edit) = 1
    /\ fix.edit[1].text.activationEvents
           = <<"*", OnCommand("foo.bar"), "onStartupFinished">>

\* C25: the level of an entry is error when its level token contains err in any
\* case, else warn when it contains warn, else debug when it contains debug or
\* trace, else info.
C25_LevelPriority ==
    parse.returned /\ Len(parse.entries) = 1 /\ Match(parse.content) # NoMatch =>
        LET token == Match(parse.content)[3]
            Contains(marker) ==
                \E i \in 1..(Len(token) - Len(marker) + 1) :
                    \A k \in 1..Len(marker) :
                        \/ token[i + k - 1] = marker[k]
                        \/ \E n \in 1..Len(LowerLetters) :
                              LowerLetters[n] = marker[k] /\ UpperLetters[n] = token[i + k - 1]
            level == parse.entries[1].level
        IN  /\ level \in {"error", "warn", "debug", "info"}
            /\ level = "error" <=> Contains(<<"e", "r", "r">>)
            /\ level = "warn" <=> /\ Contains(<<"w", "a", "r", "n">>)
                                  /\ ~Contains(<<"e", "r", "r">>)
            /\ level = "debug" <=> /\ \/ Contains(<<"d", "e", "b", "u", "g">>)
                                      \/ Contains(<<"t", "r", "a", "c", "e">>)
                                   /\ ~Contains(<<"e", "r", "r">>)
                                   /\ ~Contains(<<"w", "a", "r", "n">>)

\* an entry whose level token is DebugwarnERR has the level error
C25_Witness ==
    /\ parse.returned /\ Len(parse.entries) = 1
    /\ Match(parse.content)[3]
           = <<"D", "e", "b", "u", "g", "w", "a", "r", "n", "E", "R", "R">>
    /\ parse.entries[1].level = "error"

\* C26: a ghost-command conflict is reported for a command only if at one moment
\* of the run its extension was active while the command was not in the Runtime
\* Command Table.
C26_GhostAtOneMoment ==
    \A r \in Runs : Finished(r) =>
        \A n \in 1..Len(conflicts[r]) :
            conflicts[r][n].description = "ghost-command" =>
                <<conflicts[r][n].extensionId, conflicts[r][n].id>> \in moments[r]

\* C28: when readFile returns, no file handle that it opened is still open.
C28_HandleClosed == reader.pc = "done" => reader.fd # "open"

\* C29: the batch path shows its success message only when the apply call carried
\* at least one replacement edit, and the number of extensions in the message is
\* the number of manifests the call replaced.
C29_SuccessMessageCount ==
    fix.pc = "done" =>
        \A m \in 1..Len(messages) :
            messages[m].text = "updated" =>
                /\ fix.answer /\ fix.edit # <<>>
                /\ messages[m].arg = Cardinality({fix.edit[n].uri : n \in 1..Len(fix.edit)})

\* C30: every entry that getLogs(sourceId) returns has the source sourceId.
C30_SourceIsSourceId ==
    query.pc = "done" /\ query.op = "getLogs" =>
        \A n \in 1..Len(query.result) : query.result[n].source = query.extensionId

\* C30, as the code has it: an entry that getLogs(sourceId) returns stems from a
\* line of a log file of that directory; its source is sourceId when the channel of
\* the line is exthost, and the channel of the line otherwise.
C30_SourceIsIdOrChannel ==
    query.pc = "done" /\ query.op = "getLogs" =>
        \A n \in 1..Len(query.result) :
            LET entry == query.result[n]
                dirs  == SelectSeq(logDir.entries, LAMBDA e : e.name = query.extensionId)
                lines == UNION {Range(Split(f.text)) : f \in Range(dirs[1].files)}
            IN  /\ dirs # <<>>
                /\ \E line \in lines :
                      /\ Match(line) # NoMatch
                      /\ Match(line)[1] = entry.timestamp
                      /\ entry.source = IF Match(line)[2] = Exthost
                                        THEN query.extensionId ELSE Match(line)[2]

\* getLogs has returned an entry of the exthost channel, with the source id, and
\* an entry of another channel, with that channel
C30_Witness ==
    /\ query.pc = "done" /\ query.op = "getLogs"
    /\ \E n \in 1..Len(query.result) : query.result[n].source = query.extensionId
    /\ \E n \in 1..Len(query.result) : query.result[n].source = <<"x">>

(***************************************************************************)
(* The memoized command list.                                              *)
(***************************************************************************)
Fresh == clock - memo.lastUpdate < CACHE_DURATION /\ memo.commandCache # {}

Done(c) == calls[c].pc = "done"

\* C27: with overlapping calls the memo never regresses: lastUpdate never
\* decreases, and a call that started earlier never overwrites the list
\* stored by a call that started later.
C27_MemoNeverRegresses ==
    [][/\ memo'.lastUpdate >= memo.lastUpdate
       /\ (memo'.listOf # memo.listOf /\ memo.listOf # 0) =>
              memo'.replies[memo'.listOf].order > memo.replies[memo.listOf].order]_vars

\* C21: a call is answered from the memo, without a fetch, exactly when the
\* memo is non-empty and less than CACHE_DURATION old, and otherwise waits
\* for a fetch of its own; two calls never share a fetch; every finished
\* call returns the whole list of one single answer of the command table;
\* the stored list and the stored timestamp come from the same answer.
C21_MemoizedCommandList ==
    /\ [][\A c \in Callers :
            (calls[c].pc = "idle" /\ calls'[c].pc # "idle") =>
                /\ memo'.replies = memo.replies
                /\ IF Fresh
                   THEN /\ calls'[c].pc = "done" /\ calls'[c].hit
                        /\ calls'[c].result = memo.commandCache
                   ELSE calls'[c].pc = "awaitCommands"]_vars
    /\ [](\A c \in Callers :
            /\ (Done(c) /\ ~calls[c].hit) =>
                   /\ memo.replies[calls[c].fetch].order = calls[c].order
                   /\ calls[c].result = memo.replies[calls[c].fetch].commands
            /\ (Done(c) /\ calls[c].hit) =>
                   /\ calls[c].fetch \in 1..Len(memo.replies)
                   /\ calls[c].result = memo.replies[calls[c].fetch].commands
                   /\ calls[c].result # {})
    /\ [](\A i, j \in 1..Len(memo.replies) :
            i # j => memo.replies[i].order # memo.replies[j].order)
    /\ [](/\ memo.listOf = memo.stampOf
          /\ memo.listOf # 0 =>
                 /\ memo.commandCache = memo.replies[memo.listOf].commands
                 /\ memo.lastUpdate = memo.replies[memo.listOf].now)

\* two calls that both missed have finished, each with its own fetch, the
\* two answers differing, and a third call has been answered from the memo
C21_Witness ==
    /\ Done("panel") /\ calls["panel"].hit
    /\ Len(memo.replies) = 2
    /\ memo.replies[1].commands # memo.replies[2].commands
    /\ Done("search") /\ ~calls["search"].hit

====
